---------------------------- MODULE Spec2Model ----------------------------
(***************************************************************************)
(* Playback control logic of the video players of youtube-frontend:        *)
(*   ProVideoPlayer       (src/unnamed/part_002, lines 275-1010)           *)
(*   AdvancedVideoPlayer  (src/src/components/video/AdvancedVideoPlayer.tsx)*)
(*   EnhancedVideoPlayer  (src/src/components/video/EnhancedVideoPlayer.tsx)*)
(*   NativeVideoPlayer    (src/src/components/video/NativeVideoPlayer.tsx) *)
(*                                                                         *)
(* Each player is a React component: its useState cells and refs are the   *)
(* fields of one record variable, its handlers are operators from record   *)
(* to record, and every pending setTimeout is a record in a set, carrying  *)
(* the time left (ms) and the values its callback closed over.  Time is    *)
(* advanced by an explicit step that never passes a due timer.             *)
(***************************************************************************)
EXTENDS Integers, Sequences, FiniteSets

(* player: which of the player components the screen has mounted;        *)
(* pro, adv, enh, nat: the state of each component; app: the state of     *)
(* AuthProvider (src/src/contexts/AuthContext.tsx) and of PlayerScreen     *)
(* (src/unnamed/part_004).                                                 *)
VARIABLES player, pro, adv, enh, nat, app

vars == <<player, pro, adv, enh, nat, app>>

Max(a, b) == IF a >= b THEN a ELSE b
Min(a, b) == IF a <= b THEN a ELSE b

(* Every timer of the set S has d ms less to run. *)
Elapse(S, d) == { [t EXCEPT !.left = @ - d] : t \in S }
(* No timer of S is due before d ms have passed. *)
NoneDueBefore(S, d) == \A t \in S : t.left >= d
Due(S) == { t \in S : t.left = 0 }

---------------------------------------------------------------------------
(* ProVideoPlayer: positions in seconds, timers in milliseconds.           *)

PRO_AUTO_HIDE == 4000
PRO_FADE_OUT == 300
PRO_PROGRESS_DELAY == 100
PRO_SEEK_DEBOUNCE == 150
PRO_QUALITY_RESTORE == 500
PRO_SKIP == 10
PRO_MAX_BITRATE == 2000000

(* The granularity of the model's clock: every delay is a multiple of it.  *)
ProStep == PRO_PROGRESS_DELAY \div 2

(* Bounds of the model. *)
MaxRequests == 3
MaxSwitches == 1
NumSources == 2

(* The inputs: the duration the engine reports for the media of the       *)
(* initially selected source and for the media of another source, the      *)
(* slider values a drag can deliver and the positions a progress event     *)
(* reports.                                                                *)
ProDurations == {60}
ProOtherDurations == {30, 60}
ProSliderValues == {45, 50, 52}
ProProgressValues == {5}

(* The connectivity states NetInfo reports to its listener. *)
ProNetStates ==
    { [isConnected |-> TRUE, type |-> "wifi"],
      [isConnected |-> TRUE, type |-> "cellular"],
      [isConnected |-> TRUE, type |-> ""],
      [isConnected |-> FALSE, type |-> "none"] }

(* Stopwatches stop counting at these values. *)
ProRequestCap == PRO_SEEK_DEBOUNCE + ProStep
ProHiddenCap == 1000 + ProStep

Pro_maxBitRate_fixed(networkType) == PRO_MAX_BITRATE

(* The maxBitRate prop of the Video as a render computes it (0: undefined, *)
(* no ceiling).                                                            *)
Pro_maxBitRate(networkType) ==
    IF networkType = "wifi" THEN 0 ELSE PRO_MAX_BITRATE

ProInit ==
    [ isPlaying |-> FALSE, showControls |-> TRUE, isLoading |-> TRUE,
      isBuffering |-> FALSE, error |-> "", networkType |-> "unknown",
      \* the engine: whether it is opening a source (from the mount of the
      \* Video or a change of its uri until onLoad or onError), and the
      \* connectivity and the maxBitRate of the render that began that load
      opening |-> TRUE, loadNetwork |-> "unknown",
      loadCeiling |-> Pro_maxBitRate("unknown"),
      \* whether the engine reported an error that no Retry has followed
      failed |-> FALSE,
      duration |-> 0, currentTime |-> 0, seekTime |-> 0, isSeeking |-> FALSE,
      selectedQualityIndex |-> 0,
      showSpeedMenu |-> FALSE, showQualityMenu |-> FALSE,
      showVolumeSlider |-> FALSE,
      \* refs and untracked timers: the pending timeouts of each kind
      controlsTimeout |-> {}, seekTimeout |-> {}, progressUpdateTimeout |-> {},
      qualityTimeouts |-> {},
      \* the running fade-out of controlsOpacity (withTiming(0, 300, cb))
      fade |-> {},
      \* the user's finger: a slider drag in progress and the value it proposes
      dragging |-> FALSE, scrubPending |-> FALSE, proposed |-> -1,
      \* the engine: the last seek command it received, and how many
      \* seek commands the debounced seekTo has sent it
      engineLast |-> {}, commits |-> 0,
      \* bookkeeping of the requests made so far: seekTo calls, runs of
      \* seekTo calls sharing one debounce, quality switches, both together
      requests |-> 0, runs |-> 0, switches |-> 0, issued |-> 0,
      \* the position the most recent request asked for (-1: none yet)
      latestTarget |-> -1,
      \* stopwatches: since the last seekTo call, and paused with no overlay
      sinceRequest |-> ProRequestCap, pausedHiddenFor |-> 0 ]

Pro_showControlsAnimated(s) == [s EXCEPT !.showControls = TRUE, !.fade = {}]

Pro_hideControlsAnimated(s, origin) ==
    [s EXCEPT !.fade = {[left |-> PRO_FADE_OUT, origin |-> origin]}]

(* The dependencies of the auto-hide effect and its condition. *)
Pro_autoHideDeps(s) ==
    <<s.showControls, s.isPlaying, s.isSeeking, s.showSpeedMenu,
      s.showQualityMenu, s.showVolumeSlider>>

Pro_autoHideCondition(s) ==
    /\ s.showControls /\ s.isPlaying /\ ~s.isSeeking
    /\ ~s.showSpeedMenu /\ ~s.showQualityMenu /\ ~s.showVolumeSlider

(* The re-render after a handler: the auto-hide effect runs again when one *)
(* of its dependencies changed (its cleanup clears the timeout, its body   *)
(* arms a new one when the condition holds).                               *)
(* The Video begins to open a source when the render mounts it (the error *)
(* view is gone) or hands it another uri; the load carries the maxBitRate  *)
(* of that render.                                                         *)
Pro_beginsLoad(old, new) ==
    /\ new.error = ""
    /\ \/ old.error # ""
       \/ old.selectedQualityIndex # new.selectedQualityIndex

Pro_render(old, new) ==
    LET eff == IF Pro_autoHideDeps(old) # Pro_autoHideDeps(new)
               THEN [new EXCEPT !.controlsTimeout =
                        IF Pro_autoHideCondition(new)
                        THEN {[left |-> PRO_AUTO_HIDE]} ELSE {}]
               ELSE new
        vid == IF Pro_beginsLoad(old, new)
               THEN [eff EXCEPT !.opening = TRUE,
                                !.loadNetwork = new.networkType,
                                !.loadCeiling =
                                    Pro_maxBitRate(new.networkType)]
               ELSE eff
    IN  [vid EXCEPT !.pausedHiddenFor =
            IF ~vid.showControls /\ ~vid.isPlaying THEN @ ELSE 0]

Pro_onLoad(s, dur) ==
    [s EXCEPT !.isLoading = FALSE, !.error = "", !.duration = dur,
              !.opening = FALSE]

(* The listener of NetInfo.addEventListener. *)
Pro_onNetInfo(s, state) ==
    IF state.isConnected
    THEN [s EXCEPT !.networkType = IF state.type = "" THEN "unknown"
                                   ELSE state.type,
                   !.error = IF @ = "No internet connection" THEN "" ELSE @]
    ELSE [s EXCEPT !.networkType = "offline",
                   !.error = "No internet connection"]

Pro_onProgress(s, time) ==
    IF ~s.isSeeking
    THEN [s EXCEPT !.progressUpdateTimeout =
             {[left |-> PRO_PROGRESS_DELAY, time |-> time]}]
    ELSE s

Pro_progressUpdate(s, tm) ==
    [s EXCEPT !.currentTime = tm.time, !.progressUpdateTimeout = @ \ {tm}]

Pro_togglePlayPause(s) ==
    Pro_showControlsAnimated([s EXCEPT !.isPlaying = ~@])

Pro_clamp(time, duration) == Max(0, Min(time, duration))

(* A debounce timer carries what its callback closed over (clampedTime)   *)
(* and, for the record, the request that armed it: its target, the         *)
(* duration it was clamped to, its number among the seekTo calls (gen)     *)
(* and among all requests (ord).                                           *)
Pro_seekTimer(s, time) ==
    [left |-> PRO_SEEK_DEBOUNCE,
     clampedTime |-> Pro_clamp(time, s.duration),
     requested |-> time, atDuration |-> s.duration,
     gen |-> s.requests + 1, ord |-> s.issued + 1]

Pro_seekTo_noClear(s, time) ==
    [s EXCEPT !.seekTime = Pro_clamp(time, s.duration),
              !.seekTimeout = @ \cup {Pro_seekTimer(s, time)},
              !.proposed = Pro_clamp(time, s.duration),
              !.latestTarget = Pro_clamp(time, s.duration),
              !.requests = @ + 1, !.issued = @ + 1, !.sinceRequest = 0,
              !.runs = IF s.seekTimeout = {} THEN @ + 1 ELSE @]

Pro_seekTo(s, time) ==
    [s EXCEPT !.seekTime = Pro_clamp(time, s.duration),
              !.seekTimeout = {Pro_seekTimer(s, time)},
              !.proposed = Pro_clamp(time, s.duration),
              !.latestTarget = Pro_clamp(time, s.duration),
              !.requests = @ + 1, !.issued = @ + 1, !.sinceRequest = 0,
              !.runs = IF s.seekTimeout = {} THEN @ + 1 ELSE @]

(* A debounce callback that would leave the seeking flag as it is. *)
Pro_seekCommit_keepsFlag(s, tm) ==
    [s EXCEPT !.engineLast = IF s.error # "" THEN @ ELSE
                             {[src |-> "seekTo", pos |-> tm.clampedTime,
                               requested |-> tm.requested,
                               atDuration |-> tm.atDuration,
                               duration |-> s.duration,
                               gen |-> tm.gen, latest |-> s.requests,
                               ord |-> tm.ord]},
              !.commits = @ + 1,
              !.currentTime = tm.clampedTime,
              !.scrubPending = FALSE,
              !.seekTimeout = @ \ {tm}]

(* videoRef.current is null while the error view replaces the Video. *)
Pro_seekCommit(s, tm) ==
    [s EXCEPT !.engineLast = IF s.error # "" THEN @ ELSE
                             {[src |-> "seekTo", pos |-> tm.clampedTime,
                               requested |-> tm.requested,
                               atDuration |-> tm.atDuration,
                               duration |-> s.duration,
                               gen |-> tm.gen, latest |-> s.requests,
                               ord |-> tm.ord]},
              !.commits = @ + 1,
              !.currentTime = tm.clampedTime,
              !.isSeeking = FALSE,
              !.scrubPending = FALSE,
              !.seekTimeout = @ \ {tm}]

Pro_handleSliderStart(s) ==
    [Pro_showControlsAnimated([s EXCEPT !.isSeeking = TRUE])
        EXCEPT !.controlsTimeout = {}, !.dragging = TRUE, !.proposed = -1]

Pro_handleSliderChange(s, value) ==
    [s EXCEPT !.seekTime = value, !.proposed = value]

Pro_handleSliderComplete(s, value) ==
    Pro_seekTo([s EXCEPT !.dragging = FALSE, !.scrubPending = TRUE], value)

Pro_skipForward(s) ==
    Pro_showControlsAnimated(
        Pro_seekTo(s, Min(s.currentTime + PRO_SKIP, s.duration)))

Pro_skipBackward(s) ==
    Pro_showControlsAnimated(
        Pro_seekTo(s, Max(s.currentTime - PRO_SKIP, 0)))

Pro_changeQuality(s, index) ==
    LET currentPosition == IF s.isSeeking THEN s.seekTime ELSE s.currentTime IN
    [s EXCEPT !.selectedQualityIndex = index,
              !.showQualityMenu = FALSE,
              !.isLoading = TRUE,
              !.qualityTimeouts = @ \cup {[left |-> PRO_QUALITY_RESTORE,
                                           pos |-> currentPosition,
                                           ord |-> s.issued + 1]},
              !.latestTarget = currentPosition,
              !.issued = @ + 1, !.switches = @ + 1]

Pro_qualityRestore(s, tm) ==
    [s EXCEPT !.engineLast = IF s.error # "" THEN @ ELSE
                             {[src |-> "changeQuality", pos |-> tm.pos,
                               requested |-> tm.pos,
                               atDuration |-> s.duration,
                               duration |-> s.duration,
                               gen |-> 0, latest |-> s.requests,
                               ord |-> tm.ord]},
              !.qualityTimeouts = @ \ {tm}]

Pro_changePlaybackSpeed(s) ==
    Pro_showControlsAnimated([s EXCEPT !.showSpeedMenu = FALSE])

Pro_onBuffer(s, isBuffering) == [s EXCEPT !.isBuffering = isBuffering]

Pro_onError(s) ==
    [Pro_showControlsAnimated([s EXCEPT !.isLoading = FALSE,
                                        !.isBuffering = FALSE,
                                        !.opening = FALSE,
                                        !.failed = TRUE])
        EXCEPT !.error = "Failed to load video. Please check your connection and try again."]

(* onPress of the error view's Retry button. *)
Pro_retry(s) ==
    [s EXCEPT !.error = "", !.isLoading = TRUE, !.failed = FALSE]

Pro_tapArea(s) ==
    IF s.showControls THEN Pro_hideControlsAnimated(s, "tap")
    ELSE Pro_showControlsAnimated(s)

Pro_autoHideTimeout(s) ==
    Pro_hideControlsAnimated([s EXCEPT !.controlsTimeout = {}], "auto")

(* The fade-out ran to its end: runOnJS(setShowControls)(false).  The      *)
(* slider is unmounted with the overlay, which ends a drag in progress.    *)
Pro_fadeFinished(s) ==
    [s EXCEPT !.showControls = FALSE, !.fade = {}, !.dragging = FALSE]

(* What the user can touch: the overlay's buttons and slider exist while   *)
(* showControls holds; an open modal covers the player; one finger.        *)
Pro_modalOpen(s) == s.showSpeedMenu \/ s.showQualityMenu
Pro_mounted(s) == s.error = ""
Pro_canTouchOverlay(s) ==
    Pro_mounted(s) /\ s.showControls /\ ~Pro_modalOpen(s) /\ ~s.dragging
Pro_canTouchVideo(s) == Pro_mounted(s) /\ ~Pro_modalOpen(s) /\ ~s.dragging

Pro_timers(s) ==
    s.controlsTimeout \cup s.seekTimeout \cup s.progressUpdateTimeout
        \cup s.qualityTimeouts \cup s.fade

Pro_elapse(s, d) ==
    [s EXCEPT !.controlsTimeout = Elapse(@, d),
              !.seekTimeout = Elapse(@, d),
              !.progressUpdateTimeout = Elapse(@, d),
              !.qualityTimeouts = Elapse(@, d),
              !.fade = Elapse(@, d),
              !.sinceRequest = Min(@ + d, ProRequestCap),
              !.pausedHiddenFor =
                  IF ~s.showControls /\ ~s.isPlaying
                  THEN Min(@ + d, ProHiddenCap) ELSE 0]

ProStays == player = "pro" /\ UNCHANGED <<player, adv, enh, nat, app>>

(* The durations the engine can report for sources[selectedQualityIndex]. *)
Pro_sourceDurations(s) ==
    IF s.selectedQualityIndex = ProInit.selectedQualityIndex
    THEN ProDurations ELSE ProOtherDurations

ProOnLoad ==
    /\ Pro_mounted(pro) /\ (pro.isLoading \/ pro.opening)
    /\ \E dur \in Pro_sourceDurations(pro) :
          pro' = Pro_render(pro, Pro_onLoad(pro, dur))
    /\ ProStays

ProNetInfo ==
    /\ \E state \in ProNetStates :
          /\ pro.networkType # Pro_onNetInfo(pro, state).networkType
          /\ pro' = Pro_render(pro, Pro_onNetInfo(pro, state))
    /\ ProStays

ProOnProgress ==
    /\ Pro_mounted(pro) /\ ~pro.isLoading
    /\ \E time \in ProProgressValues :
          pro' = Pro_render(pro, Pro_onProgress(pro, time))
    /\ ProStays

ProProgressUpdate ==
    /\ \E tm \in Due(pro.progressUpdateTimeout) :
          pro' = Pro_render(pro, Pro_progressUpdate(pro, tm))
    /\ ProStays

ProSliderStart ==
    /\ Pro_canTouchOverlay(pro)
    /\ pro' = Pro_render(pro, Pro_handleSliderStart(pro))
    /\ ProStays

ProSliderChange ==
    /\ pro.dragging
    /\ \E value \in { v \in ProSliderValues : v <= pro.duration } :
          pro' = Pro_render(pro, Pro_handleSliderChange(pro, value))
    /\ ProStays

ProSliderComplete ==
    /\ pro.dragging /\ pro.requests < MaxRequests
    /\ \E value \in { v \in ProSliderValues : v <= pro.duration } :
          /\ pro.proposed \in {-1, value}
          /\ pro' = Pro_render(pro, Pro_handleSliderComplete(pro, value))
    /\ ProStays

ProSkipForward ==
    /\ Pro_canTouchOverlay(pro) /\ pro.requests < MaxRequests
    /\ pro' = Pro_render(pro, Pro_skipForward(pro))
    /\ ProStays

ProSkipBackward ==
    /\ Pro_canTouchOverlay(pro) /\ pro.requests < MaxRequests
    /\ pro' = Pro_render(pro, Pro_skipBackward(pro))
    /\ ProStays

ProSeekCommit ==
    /\ \E tm \in Due(pro.seekTimeout) :
          pro' = Pro_render(pro, Pro_seekCommit(pro, tm))
    /\ ProStays

ProOpenQualityMenu ==
    /\ Pro_canTouchOverlay(pro)
    /\ pro' = Pro_render(pro, [pro EXCEPT !.showQualityMenu = TRUE])
    /\ ProStays

ProCloseQualityMenu ==
    /\ Pro_mounted(pro) /\ pro.showQualityMenu
    /\ pro' = Pro_render(pro, [pro EXCEPT !.showQualityMenu = FALSE])
    /\ ProStays

ProChangeQuality ==
    /\ Pro_mounted(pro) /\ pro.showQualityMenu /\ pro.switches < MaxSwitches
    /\ \E index \in 0 .. NumSources - 1 :
          pro' = Pro_render(pro, Pro_changeQuality(pro, index))
    /\ ProStays

ProQualityRestore ==
    /\ \E tm \in Due(pro.qualityTimeouts) :
          pro' = Pro_render(pro, Pro_qualityRestore(pro, tm))
    /\ ProStays

ProOnBuffer ==
    /\ Pro_mounted(pro)
    /\ \E isBuffering \in BOOLEAN :
          /\ isBuffering # pro.isBuffering
          /\ pro' = Pro_render(pro, Pro_onBuffer(pro, isBuffering))
    /\ ProStays

ProOnError ==
    /\ Pro_mounted(pro)
    /\ pro' = Pro_render(pro, Pro_onError(pro))
    /\ ProStays

ProRetry ==
    /\ ~Pro_mounted(pro)
    /\ pro' = Pro_render(pro, Pro_retry(pro))
    /\ ProStays

ProTogglePlayPause ==
    /\ Pro_canTouchOverlay(pro)
    /\ pro' = Pro_render(pro, Pro_togglePlayPause(pro))
    /\ ProStays

ProTapArea ==
    /\ Pro_canTouchVideo(pro)
    /\ pro' = Pro_render(pro, Pro_tapArea(pro))
    /\ ProStays

ProOpenSpeedMenu ==
    /\ Pro_canTouchOverlay(pro)
    /\ pro' = Pro_render(pro, [pro EXCEPT !.showSpeedMenu = TRUE])
    /\ ProStays

ProCloseSpeedMenu ==
    /\ Pro_mounted(pro) /\ pro.showSpeedMenu
    /\ pro' = Pro_render(pro, [pro EXCEPT !.showSpeedMenu = FALSE])
    /\ ProStays

ProChangePlaybackSpeed ==
    /\ Pro_mounted(pro) /\ pro.showSpeedMenu
    /\ pro' = Pro_render(pro, Pro_changePlaybackSpeed(pro))
    /\ ProStays

ProToggleVolumeSlider ==
    /\ Pro_canTouchOverlay(pro)
    /\ pro' = Pro_render(pro, [pro EXCEPT !.showVolumeSlider = ~@])
    /\ ProStays

ProAutoHideTimeout ==
    /\ Due(pro.controlsTimeout) # {}
    /\ pro' = Pro_render(pro, Pro_autoHideTimeout(pro))
    /\ ProStays

ProFadeFinished ==
    /\ Due(pro.fade) # {}
    /\ pro' = Pro_render(pro, Pro_fadeFinished(pro))
    /\ ProStays

ProAdvance ==
    /\ NoneDueBefore(Pro_timers(pro), ProStep)
    /\ pro' = Pro_elapse(pro, ProStep)
    /\ ProStays

---------------------------------------------------------------------------
(* AdvancedVideoPlayer: positions in milliseconds, volume and brightness   *)
(* in percent (1.0 is 100), screen coordinates in pixels.                  *)

ADV_AUTO_HIDE == 4000
ADV_EMERGENCY_SHOW == 1000
DOUBLE_PRESS_DELAY == 250
SEEK_TIME == 10000
ADV_PAN_THRESHOLD == 30
ADV_PAN_SEEK_RANGE == 30000

AdvStep == DOUBLE_PRESS_DELAY \div 2

(* Dimensions.get('window') *)
AdvScreen == [width |-> 300, height |-> 600]

(* Bounds of the model. *)
MaxTaps == 3
MaxSeeks == 2
MaxPanMoves == 3

(* The inputs: the duration (s) and progress positions (s) the engine      *)
(* reports, slider values (ms), the x of a tap, the x of a pan's touch     *)
(* point and its displacement from the start of the gesture.               *)
AdvDurations == {60}
AdvProgressValues == {5, 55}
AdvSliderValues == {0, 45000}
AdvTapXs == {50, 100, 150, 200, 250}
AdvPanXs == {100, 200}
AdvPanOffsets == {-120, 0, 120}
AdvPanRises == {-120, 0, 60}

Abs(n) == IF n < 0 THEN -n ELSE n

AdvInit ==
    [ isPlaying |-> FALSE, currentTime |-> 0, duration |-> 0, volume |-> 100,
      showControls |-> TRUE, isLoading |-> TRUE, error |-> "",
      showSpeedMenu |-> FALSE, showQualityMenu |-> FALSE,
      isBuffering |-> FALSE, brightness |-> 100, networkStatus |-> "unknown",
      \* refs: the pending timeouts of each kind; the auto-hide effect ran
      \* at mount with showControls true
      controlsTimeout |-> {[left |-> ADV_AUTO_HIDE, isPlaying |-> FALSE,
                            menuOpen |-> FALSE]},
      doubleTapTimeout |-> {},
      controlsVisibilityTimeout |-> {},
      \* lastTap.current as the time since that tap (-1: lastTap is 0)
      sinceLastTap |-> -1,
      \* the user's finger: a slider drag, a pan that the responder captured
      dragging |-> FALSE, pan |-> {}, showSeekIndicator |-> FALSE,
      \* the engine: the last seek command (s) and the number of them
      engineLast |-> {}, engineSeeks |-> 0,
      \* bookkeeping: taps made on the video surface, time since the last
      \* one that a later tap could pair with (-1: none), time spent paused
      \* with the overlay hidden
      taps |-> 0, sinceTouch |-> -1, pausedHiddenFor |-> 0,
      \* bookkeeping: the move events delivered to the pan responder
      panMoves |-> 0 ]

AdvHiddenCap == ADV_EMERGENCY_SHOW + AdvStep

Adv_emergencyDeps(s) == <<s.showControls, s.isPlaying>>
Adv_autoHideDeps(s) ==
    <<s.showControls, s.isPlaying, s.showSpeedMenu, s.showQualityMenu>>

(* The re-render after a handler: each effect whose dependencies changed   *)
(* runs its cleanup (clearTimeout) and then its body.                      *)
Adv_render(old, new) ==
    LET e1 == IF Adv_emergencyDeps(old) # Adv_emergencyDeps(new)
              THEN [new EXCEPT !.controlsVisibilityTimeout =
                       IF ~new.showControls /\ ~new.isPlaying
                       THEN {[left |-> ADV_EMERGENCY_SHOW]} ELSE {}]
              ELSE new
        e2 == IF Adv_autoHideDeps(old) # Adv_autoHideDeps(new)
              THEN [e1 EXCEPT !.controlsTimeout =
                       IF new.showControls
                       THEN {[left |-> ADV_AUTO_HIDE,
                              isPlaying |-> new.isPlaying,
                              menuOpen |-> new.showSpeedMenu
                                              \/ new.showQualityMenu]}
                       ELSE {}]
              ELSE e1
    IN  [e2 EXCEPT !.pausedHiddenFor =
            IF ~e2.showControls /\ ~e2.isPlaying THEN @ ELSE 0]

Adv_forceShowControls(s) ==
    [s EXCEPT !.showControls = TRUE, !.controlsTimeout = {},
              !.taps = @ + 1, !.sinceTouch = 0]

Adv_emergencyShow(s, tm) ==
    [s EXCEPT !.showControls = TRUE, !.controlsVisibilityTimeout = @ \ {tm}]

Adv_autoHideTimeout(s, tm) ==
    [s EXCEPT !.showControls = IF tm.isPlaying /\ ~tm.menuOpen
                               THEN FALSE ELSE @,
              !.controlsTimeout = @ \ {tm}]

Adv_onLoad(s, dur) ==
    [s EXCEPT !.isLoading = FALSE, !.error = "", !.showControls = TRUE,
              !.duration = dur * 1000]

Adv_onProgress(s, time) == [s EXCEPT !.currentTime = time * 1000]

(* The listener of NetInfo.addEventListener. *)
Adv_onNetInfo(s, state) ==
    IF state.isConnected
    THEN [s EXCEPT !.networkStatus = IF state.type = "" THEN "unknown"
                                     ELSE state.type]
    ELSE [s EXCEPT !.networkStatus = "offline",
                   !.error = "No internet connection"]

Adv_onBuffer(s, isBuffering) == [s EXCEPT !.isBuffering = isBuffering]

Adv_onError(s) ==
    [s EXCEPT !.isLoading = FALSE, !.isBuffering = FALSE,
              !.showControls = TRUE,
              !.error = "Failed to load video. Check your connection and try again."]

(* The Retry button of the error view; videoRef.current is null there, so  *)
(* the seek(0) is not sent.                                                *)
Adv_retryVideo(s) ==
    [s EXCEPT !.error = "", !.isLoading = TRUE, !.isBuffering = FALSE,
              !.showControls = TRUE]

Adv_togglePlayPause(s) ==
    [s EXCEPT !.isPlaying = ~@, !.showControls = TRUE, !.controlsTimeout = {}]

Adv_seekTo(s, position) ==
    LET seekTime == Max(0, Min(position, s.duration)) IN
    [s EXCEPT !.engineLast = {[pos |-> seekTime \div 1000,
                               requested |-> position,
                               duration |-> s.duration]},
              !.engineSeeks = @ + 1,
              !.currentTime = seekTime]

Adv_skipForward(s) ==
    Adv_seekTo(s, Min(s.currentTime + SEEK_TIME, s.duration))

Adv_skipBackward(s) ==
    Adv_seekTo(s, Max(s.currentTime - SEEK_TIME, 0))

(* onPanResponderMove at touch point x, displaced (dx, dy) from the start. *)
Adv_onPanResponderMove(s, x, dx, dy) ==
    LET delta == (-dy * 100) \div AdvScreen.height
        vertical == Abs(dy) > ADV_PAN_THRESHOLD
        newBrightness == Max(10, Min(100, s.brightness + delta))
        newVolume == Max(0, Min(100, s.volume + delta))
        horizontal == Abs(dx) > ADV_PAN_THRESHOLD /\ Abs(dx) > Abs(dy)
    IN  [s EXCEPT !.showControls = TRUE,
                  !.showSeekIndicator = IF horizontal THEN TRUE ELSE @,
                  !.brightness = IF 2 * x < AdvScreen.width /\ vertical
                                 THEN newBrightness ELSE @,
                  !.volume = IF 2 * x > AdvScreen.width /\ vertical
                             THEN newVolume ELSE @,
                  !.pan = {[x |-> x, dx |-> dx, dy |-> dy]},
                  !.panMoves = @ + 1]

(* A release that would also register as a press of the tap area. *)
Adv_onPanResponderRelease_pressed(s, dx, dy) ==
    LET seekDelta == (dx * ADV_PAN_SEEK_RANGE) \div AdvScreen.width
        newTime == Max(0, Min(s.duration, s.currentTime + seekDelta))
        sought == IF Abs(dx) > ADV_PAN_THRESHOLD /\ Abs(dx) > Abs(dy)
                  THEN Adv_seekTo(s, newTime) ELSE s
    IN  [sought EXCEPT !.controlsTimeout = {}, !.pan = {},
                       !.showSeekIndicator = FALSE,
                       !.sinceLastTap = 0, !.sinceTouch = 0]

Adv_onPanResponderRelease(s, dx, dy) ==
    LET seekDelta == (dx * ADV_PAN_SEEK_RANGE) \div AdvScreen.width
        newTime == Max(0, Min(s.duration, s.currentTime + seekDelta))
        sought == IF Abs(dx) > ADV_PAN_THRESHOLD /\ Abs(dx) > Abs(dy)
                  THEN Adv_seekTo(s, newTime) ELSE s
    IN  [sought EXCEPT !.controlsTimeout = {}, !.pan = {},
                       !.showSeekIndicator = FALSE]

(* A double tap mapped by halves of the screen instead of thirds. *)
Adv_handleTap_halves(s, tapX) ==
    LET cleared == [s EXCEPT !.doubleTapTimeout = {}, !.taps = @ + 1] IN
    IF s.sinceLastTap # -1 /\ s.sinceLastTap < DOUBLE_PRESS_DELAY
    THEN LET acted == IF 2 * tapX < AdvScreen.width
                      THEN Adv_skipBackward(cleared)
                      ELSE Adv_skipForward(cleared)
         IN  [acted EXCEPT !.sinceLastTap = -1, !.sinceTouch = -1]
    ELSE [cleared EXCEPT !.showControls = TRUE,
                         !.doubleTapTimeout = {[left |-> DOUBLE_PRESS_DELAY]},
                         !.sinceLastTap = 0, !.sinceTouch = 0]

Adv_handleTap(s, tapX) ==
    LET cleared == [s EXCEPT !.doubleTapTimeout = {}, !.taps = @ + 1] IN
    IF s.sinceLastTap # -1 /\ s.sinceLastTap < DOUBLE_PRESS_DELAY
    THEN LET acted == IF 3 * tapX < AdvScreen.width
                      THEN Adv_skipBackward(cleared)
                      ELSE IF 3 * tapX > AdvScreen.width * 2
                           THEN Adv_skipForward(cleared)
                           ELSE Adv_togglePlayPause(cleared)
         IN  [acted EXCEPT !.sinceLastTap = -1, !.sinceTouch = -1]
    ELSE [cleared EXCEPT !.showControls = TRUE,
                         !.doubleTapTimeout = {[left |-> DOUBLE_PRESS_DELAY]},
                         !.sinceLastTap = 0, !.sinceTouch = 0]

Adv_singleTapTimeout(s, tm) ==
    [s EXCEPT !.showControls = ~@, !.doubleTapTimeout = @ \ {tm}]

Adv_onSlidingStart(s) ==
    [s EXCEPT !.showControls = TRUE, !.controlsTimeout = {},
              !.dragging = TRUE]

Adv_onSlidingComplete(s) ==
    [s EXCEPT !.controlsTimeout = {}, !.dragging = FALSE]

(* What the user can touch: the overlay's buttons and slider exist while   *)
(* showControls holds and loading is over; while the overlay is hidden a   *)
(* full-size touchable bound to forceShowControls lies over the video;     *)
(* the open speed modal covers the player (showQualityMenu opens no        *)
(* modal, and nothing sets it back to false); one finger.                  *)
Adv_mounted(s) == s.error = ""
Adv_modalOpen(s) == s.showSpeedMenu
Adv_fingerFree(s) == ~s.dragging /\ s.pan = {}
Adv_canTouchOverlay(s) ==
    /\ Adv_mounted(s) /\ s.showControls /\ ~s.isLoading
    /\ ~Adv_modalOpen(s) /\ Adv_fingerFree(s)
Adv_canTouchVideo(s) ==
    Adv_mounted(s) /\ ~Adv_modalOpen(s) /\ Adv_fingerFree(s)

Adv_timers(s) ==
    s.controlsTimeout \cup s.doubleTapTimeout \cup s.controlsVisibilityTimeout

Adv_elapse(s, d) ==
    [s EXCEPT !.controlsTimeout = Elapse(@, d),
              !.doubleTapTimeout = Elapse(@, d),
              !.controlsVisibilityTimeout = Elapse(@, d),
              !.sinceLastTap = IF @ = -1 THEN -1
                               ELSE Min(@ + d, DOUBLE_PRESS_DELAY),
              !.sinceTouch = IF @ = -1 \/ @ + d >= DOUBLE_PRESS_DELAY
                             THEN -1 ELSE @ + d,
              !.pausedHiddenFor =
                  IF ~s.showControls /\ ~s.isPlaying
                  THEN Min(@ + d, AdvHiddenCap) ELSE 0]

AdvStays == player = "adv" /\ UNCHANGED <<player, pro, enh, nat, app>>

AdvOnLoad ==
    /\ Adv_mounted(adv) /\ adv.isLoading
    /\ \E dur \in AdvDurations : adv' = Adv_render(adv, Adv_onLoad(adv, dur))
    /\ AdvStays

AdvOnProgress ==
    /\ Adv_mounted(adv) /\ ~adv.isLoading
    /\ \E time \in AdvProgressValues :
          adv' = Adv_render(adv, Adv_onProgress(adv, time))
    /\ AdvStays

AdvNetInfo ==
    /\ \E state \in ProNetStates :
          /\ adv.networkStatus # Adv_onNetInfo(adv, state).networkStatus
          /\ adv' = Adv_render(adv, Adv_onNetInfo(adv, state))
    /\ AdvStays

AdvOnBuffer ==
    /\ Adv_mounted(adv)
    /\ \E isBuffering \in BOOLEAN :
          /\ isBuffering # adv.isBuffering
          /\ adv' = Adv_render(adv, Adv_onBuffer(adv, isBuffering))
    /\ AdvStays

AdvOnError ==
    /\ Adv_mounted(adv)
    /\ adv' = Adv_render(adv, Adv_onError(adv))
    /\ AdvStays

AdvRetry ==
    /\ ~Adv_mounted(adv)
    /\ adv' = Adv_render(adv, Adv_retryVideo(adv))
    /\ AdvStays

AdvSlidingStart ==
    /\ Adv_canTouchOverlay(adv)
    /\ adv' = Adv_render(adv, Adv_onSlidingStart(adv))
    /\ AdvStays

AdvSliderChange ==
    /\ adv.dragging /\ adv.engineSeeks < MaxSeeks
    /\ \E value \in { v \in AdvSliderValues : v <= adv.duration } :
          adv' = Adv_render(adv, Adv_seekTo(adv, value))
    /\ AdvStays

AdvSlidingComplete ==
    /\ adv.dragging
    /\ adv' = Adv_render(adv, Adv_onSlidingComplete(adv))
    /\ AdvStays

AdvSkipForward ==
    /\ Adv_canTouchOverlay(adv) /\ adv.engineSeeks < MaxSeeks
    /\ adv' = Adv_render(adv, Adv_skipForward(adv))
    /\ AdvStays

AdvSkipBackward ==
    /\ Adv_canTouchOverlay(adv) /\ adv.engineSeeks < MaxSeeks
    /\ adv' = Adv_render(adv, Adv_skipBackward(adv))
    /\ AdvStays

AdvPanMove ==
    /\ Adv_mounted(adv) /\ ~Adv_modalOpen(adv) /\ ~adv.dragging
    /\ adv.panMoves < MaxPanMoves
    /\ \E x \in AdvPanXs, dx \in AdvPanOffsets, dy \in AdvPanRises :
          /\ \/ adv.pan # {}
             \/ Abs(dx) > ADV_PAN_THRESHOLD \/ Abs(dy) > ADV_PAN_THRESHOLD
          /\ adv' = Adv_render(adv, Adv_onPanResponderMove(adv, x, dx, dy))
    /\ AdvStays

AdvPanRelease ==
    /\ adv.engineSeeks < MaxSeeks
    /\ \E g \in adv.pan :
          adv' = Adv_render(adv, Adv_onPanResponderRelease(adv, g.dx, g.dy))
    /\ AdvStays

AdvPlayButton ==
    /\ Adv_canTouchOverlay(adv)
    /\ adv' = Adv_render(adv, [Adv_togglePlayPause(adv)
                                   EXCEPT !.showControls = TRUE])
    /\ AdvStays

AdvOpenSpeedMenu ==
    /\ Adv_canTouchOverlay(adv)
    /\ adv' = Adv_render(adv, [adv EXCEPT !.showSpeedMenu = TRUE])
    /\ AdvStays

(* The modal's backdrop, close button, back key, or the choice of a speed. *)
AdvCloseSpeedMenu ==
    /\ Adv_mounted(adv) /\ adv.showSpeedMenu
    /\ adv' = Adv_render(adv, [adv EXCEPT !.showSpeedMenu = FALSE])
    /\ AdvStays

AdvOpenQualityMenu ==
    /\ Adv_canTouchOverlay(adv) /\ ~adv.showQualityMenu
    /\ adv' = Adv_render(adv, [adv EXCEPT !.showQualityMenu = TRUE])
    /\ AdvStays

AdvTap ==
    /\ Adv_canTouchVideo(adv) /\ adv.showControls
    /\ adv.taps < MaxTaps /\ adv.engineSeeks < MaxSeeks
    /\ \E tapX \in AdvTapXs : adv' = Adv_render(adv, Adv_handleTap(adv, tapX))
    /\ AdvStays

AdvForceShowControls ==
    /\ Adv_canTouchVideo(adv) /\ ~adv.showControls
    /\ adv.taps < MaxTaps
    /\ adv' = Adv_render(adv, Adv_forceShowControls(adv))
    /\ AdvStays

AdvSingleTapTimeout ==
    /\ \E tm \in Due(adv.doubleTapTimeout) :
          adv' = Adv_render(adv, Adv_singleTapTimeout(adv, tm))
    /\ AdvStays

AdvAutoHideTimeout ==
    /\ \E tm \in Due(adv.controlsTimeout) :
          adv' = Adv_render(adv, Adv_autoHideTimeout(adv, tm))
    /\ AdvStays

AdvEmergencyShow ==
    /\ \E tm \in Due(adv.controlsVisibilityTimeout) :
          adv' = Adv_render(adv, Adv_emergencyShow(adv, tm))
    /\ AdvStays

AdvAdvance ==
    /\ NoneDueBefore(Adv_timers(adv), AdvStep)
    /\ adv' = Adv_elapse(adv, AdvStep)
    /\ AdvStays

---------------------------------------------------------------------------
(* NativeVideoPlayer: positions in milliseconds, the volume in percent    *)
(* (1.0 is 100) and the playback rate in hundredths (1.0 is 100).          *)

NAT_AUTO_HIDE == 4000
NAT_SKIP == 10000

NatStep == NAT_AUTO_HIDE \div 4

NatDurations == {60}
NatProgressValues == {5, 55}
NatSliderValues == {0, 45000}

PLAYBACK_SPEEDS == {25, 50, 75, 100, 125, 150, 175, 200}

(* The arguments of setVolume: the values the volume slider delivers       *)
(* (minimumValue 0, maximumValue 1) and values outside that range; the     *)
(* arguments of changePlaybackSpeed: the entries of the speed menu and     *)
(* rates that are not in the list.                                         *)
NatVolumeSliderValues == {0, 50, 100}
NatVolumeOutOfRange == {-50, 150}
NatSpeedMenuValues == {25, 100, 200}
NatSpeedOutOfList == {110, 300}

NatInit ==
    [ isPlaying |-> FALSE, currentTime |-> 0, duration |-> 0,
      showControls |-> TRUE, isLoading |-> TRUE, error |-> "",
      showSpeedMenu |-> FALSE,
      volume |-> 100, playbackSpeed |-> 100, showVolumeSlider |-> FALSE,
      \* the pending timeout of the auto-hide effect
      timeout |-> {},
      \* the engine: the last seek command (s) and the number of them
      engineLast |-> {}, engineSeeks |-> 0 ]

Nat_autoHideDeps(s) == <<s.showControls, s.isPlaying>>

Nat_render(old, new) ==
    IF Nat_autoHideDeps(old) # Nat_autoHideDeps(new)
    THEN [new EXCEPT !.timeout = IF new.showControls /\ new.isPlaying
                                 THEN {[left |-> NAT_AUTO_HIDE]} ELSE {}]
    ELSE new

Nat_autoHideTimeout(s, tm) ==
    [s EXCEPT !.showControls = FALSE, !.timeout = @ \ {tm}]

Nat_onLoad(s, dur) ==
    [s EXCEPT !.isLoading = FALSE, !.error = "", !.duration = dur * 1000]

Nat_onProgress(s, time) == [s EXCEPT !.currentTime = time * 1000]

Nat_togglePlayPause(s) == [s EXCEPT !.isPlaying = ~@]

Nat_seekTo(s, position) ==
    LET seekTime == position \div 1000 IN
    [s EXCEPT !.engineLast = {[pos |-> seekTime, requested |-> position,
                               duration |-> s.duration]},
              !.engineSeeks = @ + 1]

Nat_skipForward_unclamped(s) == Nat_seekTo(s, s.currentTime + NAT_SKIP)

Nat_skipForward(s) ==
    Nat_seekTo(s, Min(s.currentTime + NAT_SKIP, s.duration))

Nat_skipBackward(s) ==
    Nat_seekTo(s, Max(s.currentTime - NAT_SKIP, 0))

Nat_setVolume(s, volume) == [s EXCEPT !.volume = volume]

Nat_changePlaybackSpeed(s, speed) ==
    [s EXCEPT !.playbackSpeed = speed, !.showSpeedMenu = FALSE]

Nat_mounted(s) == s.error = ""
Nat_canTouchOverlay(s) ==
    Nat_mounted(s) /\ s.showControls /\ ~s.isLoading /\ ~s.showSpeedMenu

NatStays == player = "nat" /\ UNCHANGED <<player, pro, adv, enh, app>>

NatOnLoad ==
    /\ Nat_mounted(nat) /\ nat.isLoading
    /\ \E dur \in NatDurations : nat' = Nat_render(nat, Nat_onLoad(nat, dur))
    /\ NatStays

NatOnProgress ==
    /\ Nat_mounted(nat) /\ ~nat.isLoading
    /\ \E time \in NatProgressValues :
          nat' = Nat_render(nat, Nat_onProgress(nat, time))
    /\ NatStays

NatSliderChange ==
    /\ Nat_canTouchOverlay(nat) /\ nat.engineSeeks < MaxSeeks
    /\ \E value \in { v \in NatSliderValues : v <= nat.duration } :
          nat' = Nat_render(nat, Nat_seekTo(nat, value))
    /\ NatStays

NatSkipForward ==
    /\ Nat_canTouchOverlay(nat) /\ nat.engineSeeks < MaxSeeks
    /\ nat' = Nat_render(nat, Nat_skipForward(nat))
    /\ NatStays

NatSkipBackward ==
    /\ Nat_canTouchOverlay(nat) /\ nat.engineSeeks < MaxSeeks
    /\ nat' = Nat_render(nat, Nat_skipBackward(nat))
    /\ NatStays

NatTogglePlayPause ==
    /\ Nat_canTouchOverlay(nat)
    /\ nat' = Nat_render(nat, Nat_togglePlayPause(nat))
    /\ NatStays

NatTap ==
    /\ Nat_mounted(nat) /\ ~nat.showSpeedMenu
    /\ nat' = Nat_render(nat, [nat EXCEPT !.showControls = ~@])
    /\ NatStays

NatToggleVolumeSlider ==
    /\ Nat_canTouchOverlay(nat)
    /\ nat' = Nat_render(nat, [nat EXCEPT !.showVolumeSlider = ~@])
    /\ NatStays

NatSetVolume ==
    /\ Nat_canTouchOverlay(nat) /\ nat.showVolumeSlider
    /\ \E volume \in NatVolumeSliderValues \cup NatVolumeOutOfRange :
          /\ volume # nat.volume
          /\ nat' = Nat_render(nat, Nat_setVolume(nat, volume))
    /\ NatStays

NatOpenSpeedMenu ==
    /\ Nat_canTouchOverlay(nat)
    /\ nat' = Nat_render(nat, [nat EXCEPT !.showSpeedMenu = TRUE])
    /\ NatStays

NatChangePlaybackSpeed ==
    /\ Nat_mounted(nat) /\ nat.showSpeedMenu
    /\ \E speed \in NatSpeedMenuValues \cup NatSpeedOutOfList :
          nat' = Nat_render(nat, Nat_changePlaybackSpeed(nat, speed))
    /\ NatStays

NatAutoHideTimeout ==
    /\ \E tm \in Due(nat.timeout) :
          nat' = Nat_render(nat, Nat_autoHideTimeout(nat, tm))
    /\ NatStays

NatAdvance ==
    /\ NoneDueBefore(nat.timeout, NatStep)
    /\ nat' = [nat EXCEPT !.timeout = Elapse(@, NatStep)]
    /\ NatStays

---------------------------------------------------------------------------
(* EnhancedVideoPlayer: positions in milliseconds.  Its handlers read the  *)
(* state of the last render (their closure), so the state cells and the    *)
(* rendered snapshot r are kept apart and the re-render is a step of its   *)
(* own: several callbacks can run before it.                               *)

ENH_AUTO_HIDE == 4000
ENH_WATCHDOG == 10000
ENH_SKIP == 10000

EnhStep == ENH_AUTO_HIDE \div 2

(* Bounds of the model: the number of status callbacks and of presses of   *)
(* the play button.                                                        *)
MaxStatuses == 4
MaxToggles == 3

(* The statuses the engine reports (AVPlaybackStatus): loaded and playing, *)
(* loaded and buffering at the start or in mid-stream, or a load error.    *)
EnhStatuses ==
    { [isLoaded |-> TRUE, error |-> FALSE, isBuffering |-> FALSE,
       isPlaying |-> TRUE, positionMillis |-> 119000,
       durationMillis |-> 300000, volume |-> 100],
      [isLoaded |-> TRUE, error |-> FALSE, isBuffering |-> TRUE,
       isPlaying |-> FALSE, positionMillis |-> 120000,
       durationMillis |-> 300000, volume |-> 100],
      [isLoaded |-> TRUE, error |-> FALSE, isBuffering |-> TRUE,
       isPlaying |-> FALSE, positionMillis |-> 0,
       durationMillis |-> 300000, volume |-> 100],
      [isLoaded |-> FALSE, error |-> TRUE, isBuffering |-> FALSE,
       isPlaying |-> FALSE, positionMillis |-> 0, durationMillis |-> 0,
       volume |-> 100] }

EnhStopwatchCap == 2 * ENH_WATCHDOG + EnhStep

(* The values the volume slider delivers (percent; minimumValue 0,         *)
(* maximumValue 1).                                                        *)
EnhVolumeSliderValues == {0, 50, 100}

(* The values a render hands to the handlers and effects it creates. *)
Enh_snapshot(s) ==
    [ bufferingTimeout |-> s.bufferingTimeout, currentTime |-> s.currentTime,
      duration |-> s.duration, isPlaying |-> s.isPlaying,
      showControls |-> s.showControls, error |-> s.error ]

EnhCells ==
    [ isPlaying |-> FALSE, currentTime |-> 0, duration |-> 0,
      showControls |-> TRUE, isLoading |-> TRUE, error |-> "",
      isBuffering |-> FALSE, volume |-> 100, showVolumeSlider |-> FALSE,
      \* the bufferingTimeout cell holds a timer id (0: null)
      bufferingTimeout |-> 0 ]

EnhInit ==
    [ isPlaying |-> EnhCells.isPlaying, currentTime |-> EnhCells.currentTime,
      duration |-> EnhCells.duration, showControls |-> EnhCells.showControls,
      isLoading |-> EnhCells.isLoading, error |-> EnhCells.error,
      isBuffering |-> EnhCells.isBuffering,
      volume |-> EnhCells.volume,
      showVolumeSlider |-> EnhCells.showVolumeSlider,
      bufferingTimeout |-> EnhCells.bufferingTimeout,
      r |-> Enh_snapshot(EnhCells),
      \* pending timeouts: the buffering watchdogs (by id) and the auto-hide
      watchdogs |-> {}, nextId |-> 1, hideTimeout |-> {},
      \* the engine: whether its last status reported buffering, whether
      \* it reported the media loaded and not buffering, the position of
      \* its last status, the last seek command it received
      engineBuffering |-> FALSE, engineReady |-> FALSE,
      lastKnown |-> 0, engineLast |-> {},
      \* bookkeeping: status callbacks handled; watchdog timeouts that ran;
      \* recovery seeks of the current buffering episode; stopwatches since
      \* the episode began and since its first recovery seek (-1: stopped)
      statuses |-> 0, fired |-> 0, episodeSeeks |-> 0,
      bufSince |-> -1, sinceRecovery |-> -1,
      \* the engine's transport: whether it plays (shouldPlay is false),
      \* the last of playAsync/pauseAsync it received, and how many
      enginePlaying |-> FALSE, lastCommand |-> "none", toggles |-> 0,
      \* the engine's volume (percent) and the volume of its last status
      \* (-1: no status yet)
      engineVolume |-> 100, reported |-> -1,
      \* the setPositionAsync calls of seekTo, and those the engine rejected
      seeks |-> 0, rejections |-> 0 ]

Enh_clearTimeout(S, id) == { t \in S : t.id # id }

(* The re-render: the effects whose dependencies changed run the cleanup   *)
(* of the previous render and then their body.                             *)
Enh_render(s) ==
    LET e1 == IF <<s.r.showControls, s.r.isPlaying>>
                    # <<s.showControls, s.isPlaying>>
              THEN [s EXCEPT !.hideTimeout =
                       IF s.showControls /\ s.isPlaying
                       THEN {[left |-> ENH_AUTO_HIDE]} ELSE {}]
              ELSE s
        e2 == IF s.r.bufferingTimeout # s.bufferingTimeout
              THEN [e1 EXCEPT !.watchdogs =
                       Enh_clearTimeout(@, s.r.bufferingTimeout)]
              ELSE e1
    IN  [e2 EXCEPT !.r = Enh_snapshot(s)]

(* The bookkeeping of a status: a buffering episode begins with the first  *)
(* status that reports buffering and ends with the first that does not.    *)
Enh_engine(s, status) ==
    LET buffering == status.isLoaded /\ status.isBuffering
        begins == buffering /\ ~s.engineBuffering
    IN  [s EXCEPT !.engineBuffering = buffering,
                  !.engineReady = status.isLoaded /\ ~status.isBuffering,
                  !.lastKnown = IF status.isLoaded
                                THEN status.positionMillis ELSE @,
                  !.statuses = @ + 1,
                  !.episodeSeeks = IF begins \/ ~buffering THEN 0 ELSE @,
                  !.bufSince = IF begins THEN 0
                               ELSE IF buffering THEN @ ELSE -1,
                  !.sinceRecovery = IF begins \/ ~buffering THEN -1 ELSE @]

(* value || fallback on numbers: 0 is falsy. *)
Enh_or(value, fallback) == IF value = 0 THEN fallback ELSE value

Enh_stateVolume(status) == Enh_or(status.volume, 100)

Enh_onPlaybackStatusUpdate(s, status) ==
    LET g == Enh_engine(s, status)
        closure == s.r
    IN  IF status.isLoaded
        THEN LET buf ==
                   IF status.isBuffering
                   THEN [g EXCEPT
                           !.isBuffering = TRUE,
                           !.watchdogs =
                               Enh_clearTimeout(@, closure.bufferingTimeout)
                               \cup {[id |-> s.nextId, left |-> ENH_WATCHDOG,
                                      currentTime |-> closure.currentTime]},
                           !.bufferingTimeout = s.nextId,
                           !.nextId = @ + 1]
                   ELSE [g EXCEPT
                           !.isBuffering = FALSE,
                           !.watchdogs =
                               Enh_clearTimeout(@, closure.bufferingTimeout),
                           !.bufferingTimeout =
                               IF closure.bufferingTimeout # 0 THEN 0 ELSE @]
             IN  [buf EXCEPT !.isLoading = FALSE,
                             !.isPlaying = status.isPlaying,
                             !.currentTime = status.positionMillis,
                             !.duration = status.durationMillis,
                             !.volume = Enh_stateVolume(status),
                             !.reported = status.volume,
                             !.error = ""]
        ELSE IF status.error
        THEN [g EXCEPT !.isLoading = FALSE, !.isBuffering = FALSE,
                       !.watchdogs =
                           Enh_clearTimeout(@, closure.bufferingTimeout),
                       !.bufferingTimeout =
                           IF closure.bufferingTimeout # 0 THEN 0 ELSE @,
                       !.error = "Failed to load video. Please try again."]
        ELSE g

(* The Video element (videoRef.current) exists unless the last render      *)
(* returned the error view.                                                *)
Enh_videoMounted(s) == s.r.error = ""

(* The watchdog's callback: setIsBuffering(false), and setPositionAsync    *)
(* with the position of the render that armed it, unless that is 0.        *)
Enh_bufferingTimeout(s, tm) ==
    LET seeks == Enh_videoMounted(s) /\ tm.currentTime > 0 IN
    [s EXCEPT !.isBuffering = FALSE,
              !.watchdogs = @ \ {tm},
              !.fired = @ + 1,
              !.engineLast = IF seeks
                             THEN {[pos |-> tm.currentTime,
                                    known |-> s.lastKnown]}
                             ELSE @,
              !.episodeSeeks = IF seeks THEN @ + 1 ELSE @,
              !.sinceRecovery = IF seeks /\ @ = -1 THEN 0 ELSE @]

(* togglePlayPause reads isPlaying from the render that created it. *)
Enh_togglePlayPause(s) ==
    LET command == IF s.r.isPlaying THEN "pauseAsync" ELSE "playAsync" IN
    [s EXCEPT !.lastCommand = command,
              !.enginePlaying = (command = "playAsync"),
              !.toggles = @ + 1]

(* seekTo awaits setPositionAsync; the engine resolves or rejects it. *)
Enh_seekTo(s, position, rejected) ==
    [s EXCEPT !.seeks = @ + 1,
              !.rejections = IF rejected THEN @ + 1 ELSE @,
              !.engineLast = IF rejected THEN @
                             ELSE {[pos |-> position, known |-> s.lastKnown]},
              !.error = IF rejected THEN "Seek failed" ELSE @]

Enh_skipForward(s, rejected) ==
    Enh_seekTo(s, Min(s.r.currentTime + ENH_SKIP, s.r.duration), rejected)

(* The status the engine reports of itself once it has loaded the media. *)
Enh_engineStatus(s, position) ==
    [isLoaded |-> TRUE, error |-> FALSE, isBuffering |-> FALSE,
     isPlaying |-> s.enginePlaying, positionMillis |-> position,
     durationMillis |-> 300000, volume |-> s.engineVolume]

(* setVolume awaits setVolumeAsync; the engine resolves or rejects it. *)
Enh_setVolume(s, volume, rejected) ==
    IF rejected
    THEN [s EXCEPT !.error = "Volume control failed"]
    ELSE [s EXCEPT !.engineVolume = volume, !.volume = volume]

Enh_autoHideTimeout(s, tm) ==
    [s EXCEPT !.showControls = FALSE, !.hideTimeout = @ \ {tm}]

Enh_retry(s) == [s EXCEPT !.error = ""]

Enh_dirty(s) == s.r # Enh_snapshot(s)

Enh_timers(s) == s.watchdogs \cup s.hideTimeout

Enh_tick(n, d) == IF n = -1 THEN -1 ELSE Min(n + d, EnhStopwatchCap)

Enh_elapse(s, d) ==
    [s EXCEPT !.watchdogs = Elapse(@, d),
              !.hideTimeout = Elapse(@, d),
              !.bufSince = Enh_tick(@, d),
              !.sinceRecovery = Enh_tick(@, d)]

EnhStays == player = "enh" /\ UNCHANGED <<player, pro, adv, nat, app>>

EnhStatus ==
    /\ Enh_videoMounted(enh) /\ enh.statuses < MaxStatuses
    /\ \E status \in EnhStatuses :
          enh' = Enh_onPlaybackStatusUpdate(enh, status)
    /\ EnhStays

EnhEngineStatus ==
    /\ Enh_videoMounted(enh) /\ enh.statuses < MaxStatuses
    /\ \E position \in {0, 119000} :
          enh' = Enh_onPlaybackStatusUpdate(enh,
                                            Enh_engineStatus(enh, position))
    /\ EnhStays

(* The play button of the overlay, which exists while the rendered         *)
(* showControls holds and loading is over.                                 *)
EnhTogglePlayPause ==
    /\ Enh_videoMounted(enh) /\ enh.r.showControls /\ ~enh.isLoading
    /\ ~Enh_dirty(enh) /\ enh.toggles < MaxToggles
    /\ enh' = Enh_togglePlayPause(enh)
    /\ EnhStays

(* The skip-forward button of the overlay. *)
EnhSkipForward ==
    /\ Enh_videoMounted(enh) /\ enh.r.showControls /\ ~enh.isLoading
    /\ ~Enh_dirty(enh) /\ enh.seeks < MaxSeeks
    /\ \E rejected \in BOOLEAN : enh' = Enh_skipForward(enh, rejected)
    /\ EnhStays

(* The volume button of the overlay and the slider of the panel it opens. *)
EnhToggleVolumeSlider ==
    /\ Enh_videoMounted(enh) /\ enh.r.showControls /\ ~enh.isLoading
    /\ ~Enh_dirty(enh)
    /\ enh' = [enh EXCEPT !.showVolumeSlider = ~@]
    /\ EnhStays

EnhSetVolume ==
    /\ Enh_videoMounted(enh) /\ enh.r.showControls /\ ~enh.isLoading
    /\ ~Enh_dirty(enh) /\ enh.showVolumeSlider
    /\ \E volume \in EnhVolumeSliderValues, rejected \in BOOLEAN :
          /\ volume # enh.volume
          /\ enh' = Enh_setVolume(enh, volume, rejected)
    /\ EnhStays

(* A tap on the video: setShowControls(!showControls). *)
EnhTapVideo ==
    /\ Enh_videoMounted(enh) /\ ~Enh_dirty(enh)
    /\ enh' = [enh EXCEPT !.showControls = ~enh.r.showControls]
    /\ EnhStays

EnhRender ==
    /\ Enh_dirty(enh)
    /\ enh' = Enh_render(enh)
    /\ EnhStays

EnhBufferingTimeout ==
    /\ \E tm \in Due(enh.watchdogs) : enh' = Enh_bufferingTimeout(enh, tm)
    /\ EnhStays

EnhAutoHideTimeout ==
    /\ \E tm \in Due(enh.hideTimeout) : enh' = Enh_autoHideTimeout(enh, tm)
    /\ EnhStays

EnhRetry ==
    /\ enh.r.error # ""
    /\ enh' = Enh_retry(enh)
    /\ EnhStays

EnhAdvance ==
    /\ ~Enh_dirty(enh)
    /\ NoneDueBefore(Enh_timers(enh), EnhStep)
    /\ enh' = Enh_elapse(enh, EnhStep)
    /\ EnhStays

---------------------------------------------------------------------------
---------------------------------------------------------------------------
(* AuthProvider and PlayerScreen: the watch history.  A history item is    *)
(* [videoId, watchedAt]; times of progress callbacks are in tenths of a    *)
(* second.                                                                 *)

HISTORY_SECONDS == 30
HISTORY_PERCENT == 10

(* Bounds of the model: the videos there are, the length the history is    *)
(* cut to (100 in the source, scaled to the number of videos), the calls   *)
(* of addToHistory.                                                        *)
NumVideos == 3
HistoryLimit == 2
MaxAdds == 4

Videos == 1..NumVideos

(* The inputs: the (currentSec, totalSec) pairs the player reports. *)
AppProgressValues ==
    { [currentSec |-> 59, totalSec |-> 1000],
      [currentSec |-> 100, totalSec |-> 1000],
      [currentSec |-> 299, totalSec |-> 6000],
      [currentSec |-> 305, totalSec |-> 6000],
      [currentSec |-> 50, totalSec |-> 0] }

AppInit ==
    [ \* AuthProvider
      user |-> FALSE, isAuthenticated |-> FALSE, watchHistory |-> <<>>,
      \* AsyncStorage: the history stored under the user's key, if any
      stored |-> {},
      \* Date.now(), counted in calls of addToHistory
      now |-> 0,
      \* PlayerScreen: the video it shows (0: the screen is not mounted),
      \* its cell, and its calls of handleVideoProgress that are suspended
      \* at await addToHistory
      currentVideo |-> 0, hasAddedToHistory |-> FALSE, awaiting |-> 0,
      \* bookkeeping: the calls of addToHistory this PlayerScreen made, the
      \* calls made in all, the video of the last call a signed-in user made
      \* (0: none, or the history was cleared since)
      calls |-> 0, adds |-> 0, lastAdded |-> 0 ]

(* history.sort((a, b) => b.watchedAt - a.watchedAt) *)
RECURSIVE App_sort(_)
App_sort(history) ==
    IF history = <<>> THEN <<>>
    ELSE LET i == CHOOSE k \in 1..Len(history) :
                     \A j \in 1..Len(history) :
                        \/ history[k].watchedAt > history[j].watchedAt
                        \/ history[k].watchedAt = history[j].watchedAt
                              /\ k <= j
             rest == [j \in 1..(Len(history) - 1) |->
                         IF j < i THEN history[j] ELSE history[j + 1]]
         IN  <<history[i]>> \o App_sort(rest)

App_loadWatchHistory(s) ==
    IF s.stored = {} THEN s
    ELSE [s EXCEPT !.watchHistory = App_sort(CHOOSE h \in s.stored : TRUE)]

App_signIn(s) ==
    App_loadWatchHistory([s EXCEPT !.user = TRUE, !.isAuthenticated = TRUE])

App_signOut(s) ==
    [s EXCEPT !.user = FALSE, !.isAuthenticated = FALSE,
              !.watchHistory = <<>>]

(* An addToHistory that would keep the earlier entry of the video. *)
App_addToHistory_noFilter(s, video) ==
    IF ~s.user THEN [s EXCEPT !.adds = @ + 1]
    ELSE LET historyItem == [videoId |-> video, watchedAt |-> s.now + 1]
             all == <<historyItem>> \o s.watchHistory
             newHistory == SubSeq(all, 1, Min(HistoryLimit, Len(all)))
         IN  [s EXCEPT !.watchHistory = newHistory, !.stored = {newHistory},
                       !.now = @ + 1, !.adds = @ + 1, !.lastAdded = video]

(* addToHistory up to its await; the item is stored by the setItem that    *)
(* saveWatchHistory issues.                                                *)
App_addToHistory(s, video) ==
    IF ~s.user THEN [s EXCEPT !.adds = @ + 1]
    ELSE LET historyItem == [videoId |-> video, watchedAt |-> s.now + 1]
             Kept(item) == item.videoId # video
             filteredHistory == SelectSeq(s.watchHistory, Kept)
             all == <<historyItem>> \o filteredHistory
             newHistory == SubSeq(all, 1, Min(HistoryLimit, Len(all)))
         IN  [s EXCEPT !.watchHistory = newHistory, !.stored = {newHistory},
                       !.now = @ + 1, !.adds = @ + 1, !.lastAdded = video]

App_clearHistory(s) ==
    IF ~s.user THEN s
    ELSE [s EXCEPT !.watchHistory = <<>>, !.stored = {<<>>},
                   !.lastAdded = 0]

(* handleVideoProgress up to its await. *)
App_handleVideoProgress(s, currentSec, totalSec) ==
    LET watchedSeconds == currentSec \div 10
        totalSeconds == totalSec \div 10
        enough == \/ watchedSeconds >= HISTORY_SECONDS
                  \/ /\ totalSeconds > 0
                     /\ watchedSeconds * 100 >= HISTORY_PERCENT * totalSeconds
    IN  IF ~s.hasAddedToHistory /\ s.isAuthenticated /\ s.currentVideo # 0
           /\ enough
        THEN [App_addToHistory(s, s.currentVideo)
                 EXCEPT !.awaiting = @ + 1, !.calls = @ + 1]
        ELSE s

(* handleVideoProgress after its await: setHasAddedToHistory(true). *)
App_historyAdded(s) ==
    [s EXCEPT !.hasAddedToHistory = TRUE, !.awaiting = @ - 1]

(* A PlayerScreen is mounted for a video. *)
App_openVideo(s, video) ==
    [s EXCEPT !.currentVideo = video, !.hasAddedToHistory = FALSE,
              !.awaiting = 0, !.calls = 0]

AppStays == player = "screen" /\ UNCHANGED <<player, pro, adv, enh, nat>>

AppOpenVideo ==
    /\ \E video \in Videos :
          /\ video # app.currentVideo
          /\ app' = App_openVideo(app, video)
    /\ AppStays

AppProgress ==
    /\ app.currentVideo # 0 /\ app.adds < MaxAdds
    /\ \E p \in AppProgressValues :
          app' = App_handleVideoProgress(app, p.currentSec, p.totalSec)
    /\ AppStays

AppHistoryAdded ==
    /\ app.awaiting > 0
    /\ app' = App_historyAdded(app)
    /\ AppStays

(* A call of addToHistory by a consumer of the context. *)
AppAddToHistory ==
    /\ app.adds < MaxAdds
    /\ \E video \in Videos : app' = App_addToHistory(app, video)
    /\ AppStays

AppClearHistory ==
    /\ app' = App_clearHistory(app)
    /\ AppStays

AppSignIn ==
    /\ ~app.user
    /\ app' = App_signIn(app)
    /\ AppStays

AppSignOut ==
    /\ app' = App_signOut(app)
    /\ AppStays

Players == {"pro", "adv", "enh", "nat", "screen"}

Init ==
    /\ player \in Players
    /\ pro = ProInit
    /\ adv = AdvInit
    /\ enh = EnhInit
    /\ nat = NatInit
    /\ app = AppInit

(* The seek paths of ProVideoPlayer, AdvancedVideoPlayer and               *)
(* NativeVideoPlayer: load, progress, slider, skip buttons, pan, and the   *)
(* timers of the debounced seek and the deferred progress update.          *)
NextSeek ==
    \/ ProOnLoad \/ ProOnProgress \/ ProProgressUpdate
    \/ ProSliderStart \/ ProSliderChange \/ ProSliderComplete
    \/ ProSkipForward \/ ProSkipBackward \/ ProSeekCommit
    \/ ProAdvance
    \/ AdvOnLoad \/ AdvOnProgress
    \/ AdvSlidingStart \/ AdvSliderChange \/ AdvSlidingComplete
    \/ AdvSkipForward \/ AdvSkipBackward
    \/ AdvPanMove \/ AdvPanRelease
    \/ NatOnLoad \/ NatOnProgress \/ NatSliderChange
    \/ NatSkipForward \/ NatSkipBackward

SpecSeek == Init /\ [][NextSeek]_vars

(* Quality switches of ProVideoPlayer against its debounced seeks.         *)
NextProQuality ==
    \/ ProOnLoad
    \/ ProSliderStart \/ ProSliderChange \/ ProSliderComplete
    \/ ProSkipForward \/ ProSkipBackward \/ ProSeekCommit
    \/ ProOpenQualityMenu \/ ProCloseQualityMenu
    \/ ProChangeQuality \/ ProQualityRestore
    \/ ProAdvance

SpecProQuality == Init /\ [][NextProQuality]_vars

(* The overlay of ProVideoPlayer: play/pause, taps, menus, the slider's    *)
(* drag and the auto-hide, fade and seek timers.                           *)
NextProOverlay ==
    \/ ProOnLoad
    \/ ProTogglePlayPause \/ ProTapArea
    \/ ProOpenSpeedMenu \/ ProCloseSpeedMenu \/ ProChangePlaybackSpeed
    \/ ProOpenQualityMenu \/ ProCloseQualityMenu
    \/ ProToggleVolumeSlider
    \/ ProSliderStart \/ ProSliderComplete \/ ProSeekCommit
    \/ ProAutoHideTimeout \/ ProFadeFinished
    \/ ProAdvance

SpecProOverlay == Init /\ [][NextProOverlay]_vars

(* Taps, buttons and the overlay timers of AdvancedVideoPlayer.            *)
NextAdvOverlay ==
    \/ AdvOnLoad
    \/ AdvTap \/ AdvForceShowControls \/ AdvSingleTapTimeout
    \/ AdvPlayButton \/ AdvSkipForward \/ AdvSkipBackward
    \/ AdvAutoHideTimeout \/ AdvEmergencyShow
    \/ AdvAdvance

SpecAdvOverlay == Init /\ [][NextAdvOverlay]_vars

(* The auto-hide countdown of AdvancedVideoPlayer against slider drags,    *)
(* menus and the play button.                                              *)
NextAdvHide ==
    \/ AdvOnLoad \/ AdvPlayButton \/ AdvForceShowControls
    \/ AdvSlidingStart \/ AdvSlidingComplete
    \/ AdvOpenSpeedMenu \/ AdvCloseSpeedMenu \/ AdvOpenQualityMenu
    \/ AdvAutoHideTimeout
    \/ AdvAdvance

SpecAdvHide == Init /\ [][NextAdvHide]_vars

(* Skips, load completion, engine errors and retries of ProVideoPlayer and *)
(* AdvancedVideoPlayer against their auto-hide timers.                     *)
NextReset ==
    \/ ProOnLoad \/ ProTogglePlayPause
    \/ ProSkipForward \/ ProSkipBackward \/ ProSeekCommit
    \/ ProOnBuffer \/ ProOnError \/ ProRetry
    \/ ProAutoHideTimeout \/ ProFadeFinished \/ ProTapArea
    \/ ProAdvance
    \/ AdvOnLoad \/ AdvPlayButton
    \/ AdvSkipForward \/ AdvSkipBackward
    \/ AdvOnBuffer \/ AdvOnError \/ AdvRetry
    \/ AdvAutoHideTimeout \/ AdvForceShowControls
    \/ AdvAdvance

SpecReset == Init /\ [][NextReset]_vars

(* The buffering watchdog of EnhancedVideoPlayer: status callbacks, the    *)
(* re-render, the watchdog and auto-hide timers, the error view's retry.   *)
NextEnh ==
    \/ EnhStatus \/ EnhRender \/ EnhBufferingTimeout
    \/ EnhAutoHideTimeout \/ EnhRetry \/ EnhAdvance

SpecEnh == Init /\ [][NextEnh]_vars

(* The play and skip buttons of EnhancedVideoPlayer against the status     *)
(* callbacks by which the engine reports what it is doing.                 *)
NextEnhToggle ==
    \/ EnhEngineStatus \/ EnhRender \/ EnhTogglePlayPause \/ EnhTapVideo
    \/ EnhSkipForward \/ EnhRetry
    \/ EnhAutoHideTimeout \/ EnhAdvance

SpecEnhToggle == Init /\ [][NextEnhToggle]_vars

(* The volume of EnhancedVideoPlayer: the slider's setVolume against the   *)
(* statuses by which the engine reports its volume.                        *)
NextEnhVolume ==
    \/ EnhEngineStatus \/ EnhRender \/ EnhTogglePlayPause
    \/ EnhToggleVolumeSlider \/ EnhSetVolume \/ EnhRetry
    \/ EnhAutoHideTimeout \/ EnhAdvance

SpecEnhVolume == Init /\ [][NextEnhVolume]_vars

(* Progress events of ProVideoPlayer against its deferred position update, *)
(* with play/pause, taps and the overlay's timers.  Time passes, and a     *)
(* progress timeout that is due again and again runs its callback.         *)
NextProProgress ==
    \/ ProOnLoad \/ ProOnProgress \/ ProProgressUpdate
    \/ ProTogglePlayPause \/ ProTapArea
    \/ ProAutoHideTimeout \/ ProFadeFinished
    \/ ProAdvance

SpecProProgress ==
    /\ Init /\ [][NextProProgress]_vars
    /\ WF_vars(ProAdvance) /\ SF_vars(ProProgressUpdate)

(* Connectivity reports of ProVideoPlayer against loads, quality switches, *)
(* engine errors and retries.                                              *)
NextProNetwork ==
    \/ ProOnLoad \/ ProNetInfo
    \/ ProOpenQualityMenu \/ ProCloseQualityMenu
    \/ ProChangeQuality \/ ProQualityRestore
    \/ ProTogglePlayPause \/ ProOnError \/ ProRetry
    \/ ProAutoHideTimeout \/ ProFadeFinished \/ ProTapArea
    \/ ProAdvance

SpecProNetwork == Init /\ [][NextProNetwork]_vars

(* Connectivity reports of AdvancedVideoPlayer against loads, engine       *)
(* errors, retries and the overlay.                                        *)
NextAdvNetwork ==
    \/ AdvOnLoad \/ AdvNetInfo
    \/ AdvOnError \/ AdvRetry
    \/ AdvPlayButton \/ AdvForceShowControls
    \/ AdvAutoHideTimeout \/ AdvAdvance

SpecAdvNetwork == Init /\ [][NextAdvNetwork]_vars

(* Scrubs and skips of ProVideoPlayer against progress events.  Time      *)
(* passes, and a timeout that is due runs its callback.                    *)
NextProScrub ==
    \/ ProOnLoad \/ ProOnProgress \/ ProProgressUpdate
    \/ ProSliderStart \/ ProSliderChange \/ ProSliderComplete
    \/ ProSkipForward \/ ProSkipBackward \/ ProSeekCommit
    \/ ProAdvance

SpecProScrub ==
    /\ Init /\ [][NextProScrub]_vars
    /\ WF_vars(ProAdvance)
    /\ WF_vars(ProSeekCommit) /\ WF_vars(ProProgressUpdate)

(* PlayerScreen's progress callbacks against the await of addToHistory,    *)
(* with sign-in and sign-out.                                              *)
NextWatch ==
    \/ AppOpenVideo \/ AppProgress \/ AppHistoryAdded
    \/ AppSignIn \/ AppSignOut

SpecWatch == Init /\ [][NextWatch]_vars

(* The calls of the context's addToHistory, clearHistory, signIn and       *)
(* signOut, each run to its end before the next.                           *)
NextHistory ==
    \/ AppAddToHistory \/ AppClearHistory \/ AppSignIn \/ AppSignOut

SpecHistory == Init /\ [][NextHistory]_vars

(* Taps and pans on the video surface of AdvancedVideoPlayer against the   *)
(* double-tap window and the overlay timers.                               *)
NextAdvGesture ==
    \/ AdvOnLoad
    \/ AdvTap \/ AdvForceShowControls \/ AdvSingleTapTimeout
    \/ AdvPanMove \/ AdvPanRelease
    \/ AdvAutoHideTimeout \/ AdvEmergencyShow
    \/ AdvAdvance

SpecAdvGesture == Init /\ [][NextAdvGesture]_vars

(* The settings: volume and playback rate of NativeVideoPlayer, volume and *)
(* brightness of AdvancedVideoPlayer's pan.                                *)
NextSettings ==
    \/ NatOnLoad \/ NatTogglePlayPause \/ NatTap
    \/ NatToggleVolumeSlider \/ NatSetVolume
    \/ NatOpenSpeedMenu \/ NatChangePlaybackSpeed
    \/ NatAutoHideTimeout \/ NatAdvance
    \/ AdvOnLoad \/ AdvPanMove \/ AdvPanRelease

SpecSettings == Init /\ [][NextSettings]_vars

---------------------------------------------------------------------------
(* Properties.                                                             *)

(* C1 -- Seek coalescing (ProVideoPlayer.seekTo).  At most one debounce    *)
(* timer is pending and it belongs to the latest seekTo call, carrying     *)
(* that call's clamped target; for 150 ms after a call its timer is still  *)
(* pending, so nothing is committed inside a run; a seek reaches the       *)
(* engine only from the latest call made by then; every run of calls that  *)
(* each found the previous timer pending ends in exactly one engine seek   *)
(* (seeks committed = runs begun - runs still pending); and once the timer *)
(* has fired the engine's last seek is that of the last call.              *)
C1_SeekCoalescing ==
    /\ Cardinality(pro.seekTimeout) <= 1
    /\ \A tm \in pro.seekTimeout :
          /\ tm.gen = pro.requests
          /\ tm.clampedTime = Pro_clamp(tm.requested, tm.atDuration)
    /\ (pro.requests > 0 /\ pro.sinceRequest < PRO_SEEK_DEBOUNCE)
          => pro.seekTimeout # {}
    /\ \A c \in pro.engineLast :
          c.src = "seekTo" =>
             /\ c.gen = c.latest
             /\ c.pos = Pro_clamp(c.requested, c.atDuration)
    /\ pro.commits = pro.runs - Cardinality(pro.seekTimeout)
    /\ (pro.requests > 0 /\ pro.seekTimeout = {})
          => \A c \in pro.engineLast : c.gen = pro.requests

(* Three seekTo calls in one run (slider releases or skips less than       *)
(* 150 ms apart), the last one for 52, have produced one engine seek, to   *)
(* 52.                                                                     *)
C1_Witness ==
    /\ pro.requests = 3 /\ pro.runs = 1 /\ pro.commits = 1
    /\ pro.seekTimeout = {}
    /\ \E c \in pro.engineLast : c.pos = 52 /\ c.gen = 3

(* C2 -- Scrub suspension (ProVideoPlayer).  While a slider drag is in     *)
(* progress or its release has not yet been committed to the engine, no    *)
(* step applies a deferred progress value to currentTime, and the position *)
(* on display is the value the user proposed.                              *)
C2_Displayed(s) == IF s.isSeeking THEN s.seekTime ELSE s.currentTime

C2_Scrubbing(s) == s.dragging \/ s.scrubPending

C2_ScrubSuspension ==
    [][ C2_Scrubbing(pro) =>
          /\ ~(pro.progressUpdateTimeout # {}
                 /\ pro'.progressUpdateTimeout = {})
          /\ (C2_Scrubbing(pro') /\ pro'.proposed # -1)
                => C2_Displayed(pro') = pro'.proposed ]_vars

C4_LastWriteWins ==
    (pro.seekTimeout = {} /\ pro.qualityTimeouts = {})
       => \A c \in pro.engineLast : c.pos = pro.latestTarget

(* C5 -- Buffering watchdog recovery (EnhancedVideoPlayer).  Once the      *)
(* engine has been buffering, at a position past the start, for more than  *)
(* 10 s since the episode began (and not yet for a second timeout),        *)
(* exactly one recovery seek has been issued in the episode, to the        *)
(* position last reported when it was sent.                                *)
C5_WatchdogRecovery ==
    (/\ enh.engineBuffering /\ enh.lastKnown > 0
     /\ enh.bufSince > ENH_WATCHDOG /\ enh.bufSince <= 2 * ENH_WATCHDOG)
       => /\ enh.episodeSeeks = 1
          /\ \A c \in enh.engineLast : c.pos = c.known

(* C6 -- Stall escalation (EnhancedVideoPlayer).  Within one buffering     *)
(* episode there is at most one recovery seek, and when buffering has      *)
(* gone on for more than a further 10 s after it the player is in the      *)
(* error state "playback stalled".                                         *)
C6_StallEscalation ==
    /\ enh.episodeSeeks <= 1
    /\ (enh.engineBuffering /\ enh.sinceRecovery > ENH_WATCHDOG)
          => enh.error = "playback stalled"

(* C7 -- Watchdog disarm (EnhancedVideoPlayer).  Whenever the engine's     *)
(* last status reports the media loaded and not buffering, no watchdog     *)
(* timer is pending.                                                       *)
C7_WatchdogDisarm ==
    enh.engineReady => enh.watchdogs = {}

(* C8 -- Controls never stuck hidden while paused (ProVideoPlayer).  The   *)
(* player is never paused with its controls hidden for more than 1 s.      *)
C8_NeverStuckHidden ==
    pro.pausedHiddenFor < ProHiddenCap

(* C9 -- Double tap consumes the gesture (AdvancedVideoPlayer).  A tap on  *)
(* the video less than 250 ms after the previous one executes a transport  *)
(* command (a skip, or play/pause) and leaves no single-tap timer pending. *)
C9_DoubleTapConsumes ==
    [][ (/\ adv'.taps = adv.taps + 1
         /\ adv.sinceTouch # -1 /\ adv.sinceTouch < DOUBLE_PRESS_DELAY)
          => /\ \/ adv'.engineSeeks = adv.engineSeeks + 1
                \/ adv'.isPlaying # adv.isPlaying
             /\ adv'.doubleTapTimeout = {} ]_vars

(* C10 -- Auto-hide safety (ProVideoPlayer).  The fade-out that the        *)
(* auto-hide countdown started hides the controls only while the player    *)
(* is playing, not scrubbing, and has no speed or quality menu open.       *)
C10_AutoHideSafety ==
    [][ (/\ pro.fade # {} /\ \A f \in pro.fade : f.origin = "auto"
         /\ pro.showControls /\ ~pro'.showControls)
          => /\ pro.isPlaying /\ ~pro.isSeeking
             /\ ~pro.showSpeedMenu /\ ~pro.showQualityMenu ]_vars

(* C11 -- Auto-hide resumes (AdvancedVideoPlayer).  Whenever the controls  *)
(* are visible while playing, with no slider drag or pan in progress and   *)
(* no menu open, an auto-hide timeout is pending (so that the controls     *)
(* hide within 4 s unless the user interacts).                             *)
C11_AutoHideResumes ==
    (/\ adv.showControls /\ adv.isPlaying
     /\ ~adv.dragging /\ adv.pan = {}
     /\ ~adv.showSpeedMenu /\ ~adv.showQualityMenu)
       => adv.controlsTimeout # {}

(* C12 -- Qualifying interactions reset the overlay (ProVideoPlayer,       *)
(* AdvancedVideoPlayer).  After a skip, a load completion, an engine error *)
(* or a retry the controls are visible and every pending auto-hide timeout *)
(* that can hide them has its full 4 s left.                               *)
C12_ProInteraction ==
    \/ pro'.requests = pro.requests + 1
    \/ pro.isLoading # pro'.isLoading
    \/ pro.error # pro'.error

C12_AdvInteraction ==
    \/ adv'.engineSeeks = adv.engineSeeks + 1
    \/ adv.isLoading # adv'.isLoading
    \/ adv.error # adv'.error

C12_InteractionResets ==
    [][ /\ C12_ProInteraction =>
              /\ pro'.showControls /\ pro'.fade = {}
              /\ \A tm \in pro'.controlsTimeout : tm.left = PRO_AUTO_HIDE
        /\ C12_AdvInteraction =>
              /\ adv'.showControls
              /\ \A tm \in adv'.controlsTimeout :
                    (tm.isPlaying /\ ~tm.menuOpen) => tm.left = ADV_AUTO_HIDE
      ]_vars

(* C13 -- Single tap (AdvancedVideoPlayer).  A tap on the video that is    *)
(* not the second of a pair flips showControls in the step of the tap and  *)
(* leaves no auto-hide timeout pending but a fresh one; and when the       *)
(* single-tap timeout of a lone tap fires, the controls, which were        *)
(* visible before that tap (a tap reaches handleTap only then), end up     *)
(* hidden.                                                                 *)
C13_LoneTap ==
    /\ adv'.taps = adv.taps + 1
    /\ ~(adv.sinceTouch # -1 /\ adv.sinceTouch < DOUBLE_PRESS_DELAY)

C13_WindowPassed ==
    /\ adv.doubleTapTimeout # {} /\ adv'.doubleTapTimeout = {}
    /\ adv'.taps = adv.taps

C13_SingleTap ==
    [][ /\ C13_LoneTap =>
              /\ adv'.showControls # adv.showControls
              /\ \A tm \in adv'.controlsTimeout : tm.left = ADV_AUTO_HIDE
        /\ C13_WindowPassed => ~adv'.showControls ]_vars

(* C14 -- Play/pause idempotence (EnhancedVideoPlayer).  A press of the    *)
(* play button never sends the engine the command it received last: of     *)
(* playAsync and pauseAsync the same one is not sent twice in a row.       *)
C14_PlayPauseIdempotence ==
    [][ enh'.toggles = enh.toggles + 1
          => enh'.lastCommand # enh.lastCommand ]_vars

C16_Switched ==
    /\ pro.duration > 0
    /\ pro.selectedQualityIndex # ProInit.selectedQualityIndex

C16_RestoreSent ==
    Cardinality(pro'.qualityTimeouts) < Cardinality(pro.qualityTimeouts)

C16_LoadCompleted == pro.isLoading /\ ~pro'.isLoading

C16_RestoreOnLoad ==
    [][ C16_Switched =>
          /\ C16_RestoreSent => ~pro.isLoading
          /\ C16_LoadCompleted => pro'.qualityTimeouts = {} ]_vars

(* C17 -- Bitrate ceiling is not retroactive (ProVideoPlayer).  While a    *)
(* source that was loaded on wifi is open and playing and connectivity has *)
(* become cellular, the maxBitRate given to the engine is still the one    *)
(* its load was made with (none).                                          *)
C17_CeilingNotRetroactive ==
    (/\ Pro_mounted(pro) /\ ~pro.opening /\ pro.isPlaying
     /\ pro.loadNetwork = "wifi" /\ pro.networkType = "cellular")
       => Pro_maxBitRate(pro.networkType) = pro.loadCeiling

(* C18 -- Bitrate ceiling follows connectivity class (ProVideoPlayer).     *)
(* The load of the source the Video has open or is opening was made with a *)
(* maxBitRate exactly when the connectivity known at that time was not     *)
(* wifi, and that maxBitRate is 2000000.                                   *)
C18_CeilingFollowsConnectivity ==
    /\ (pro.loadCeiling # 0) <=> (pro.loadNetwork # "wifi")
    /\ pro.loadCeiling \in {0, PRO_MAX_BITRATE}

(* A quality switch made on wifi, after a first load made on cellular,     *)
(* carries no ceiling.                                                     *)
C18_Witness ==
    /\ pro.switches > 0 /\ pro.selectedQualityIndex # 0
    /\ pro.loadNetwork = "wifi" /\ pro.loadCeiling = 0

(* C19 -- Engine error transition (EnhancedVideoPlayer).  The status       *)
(* callback that reports an engine error leaves the player with an error   *)
(* message, not loading, not buffering, and with no buffering watchdog     *)
(* pending.                                                                *)
C19_ErrorReported ==
    enh'.statuses = enh.statuses + 1 /\ enh'.error # ""

C19_EngineError ==
    [][ C19_ErrorReported =>
          /\ ~enh'.isLoading /\ ~enh'.isBuffering
          /\ enh'.watchdogs = {} ]_vars

(* C20 -- Retry (EnhancedVideoPlayer).  The Retry button of the error view *)
(* leaves the player loading: error cleared, loading flag set, buffering   *)
(* flag clear.                                                             *)
C20_Retried ==
    /\ enh.r.error # "" /\ enh.error # "" /\ enh'.error = ""
    /\ enh'.statuses = enh.statuses

C20_RetryLeadsToLoading ==
    [][ C20_Retried => (enh'.isLoading /\ ~enh'.isBuffering) ]_vars

(* C21 -- Load errors are terminal until explicit retry (ProVideoPlayer).  *)
(* After an engine error, and until the user presses Retry, the player     *)
(* shows its error view.                                                   *)
C21_TerminalUntilRetry ==
    pro.failed => pro.error # ""

(* C22 -- Network loss is non-fatal (ProVideoPlayer).  The step in which   *)
(* the listener learns that connectivity is lost leaves the error state,   *)
(* the mounted Video, the playing flag and the position as they were.      *)
C22_NetworkLost ==
    pro.networkType # "offline" /\ pro'.networkType = "offline"

C22_LossNonFatal ==
    [][ C22_NetworkLost =>
          /\ pro'.error = pro.error
          /\ Pro_mounted(pro') = Pro_mounted(pro)
          /\ pro'.isPlaying = pro.isPlaying
          /\ pro'.currentTime = pro.currentTime ]_vars

(* C23 -- Network loss clears on reconnect (AdvancedVideoPlayer).  The     *)
(* step in which the listener learns that connectivity is back leaves no   *)
(* 'No internet connection' indication.                                    *)
C23_Reconnected ==
    adv.networkStatus = "offline" /\ adv'.networkStatus # "offline"

C23_ClearsOnReconnect ==
    [][ C23_Reconnected => adv'.error # "No internet connection" ]_vars

(* C24 -- Seek rejection is handled locally (EnhancedVideoPlayer).  The    *)
(* step in which the engine rejects a seek sends the seek a second time    *)
(* and leaves the error state as it was.                                   *)
C24_SeekRejected == enh'.rejections > enh.rejections

C24_SeekRejectionLocal ==
    [][ C24_SeekRejected =>
          /\ enh'.error = enh.error
          /\ enh'.seeks = enh.seeks + 2 ]_vars

(* C25 -- scrubMove is UI-only (AdvancedVideoPlayer, ProVideoPlayer).      *)
(* While the slider is being dragged, from the step after its start to the *)
(* step before its release, no seek command reaches the engine.            *)
C25_ScrubMoveUiOnly ==
    [][ /\ (adv.dragging /\ adv'.dragging)
              => adv'.engineSeeks = adv.engineSeeks
        /\ (pro.dragging /\ pro'.dragging)
              => pro'.commits = pro.commits ]_vars


(* C26 -- Pan adjustments are relative to the gesture start              *)
(* (AdvancedVideoPlayer).  If volume and brightness were computed from    *)
(* the value at the gesture start and the total displacement dy, then a   *)
(* further move event of the same gesture that reports the same touch     *)
(* point and the same total displacement would leave both unchanged: the  *)
(* number of move events delivered would not matter.                      *)
C26_SameDisplacement ==
    adv.pan # {} /\ adv'.pan = adv.pan

C26_PanRelativeToStart ==
    [][ C26_SameDisplacement => /\ adv'.brightness = adv.brightness
                                /\ adv'.volume = adv.volume ]_vars


(* C27 -- Tap and pan are mutually exclusive (AdvancedVideoPlayer).  A    *)
(* step of a touch sequence that the pan responder has captured, a move   *)
(* or the release, performs no tap or double-tap action: it does not      *)
(* count as a tap (lastTap and the single-tap timer are untouched), it    *)
(* does not toggle play/pause, it never hides the controls, and it sends  *)
(* the engine a seek only as the release of a horizontal pan.             *)
C27_PanStep ==
    \/ adv'.panMoves # adv.panMoves
    \/ adv.pan # {} /\ adv'.pan = {}

C27_HorizontalPan ==
    \E g \in adv.pan : /\ Abs(g.dx) > ADV_PAN_THRESHOLD
                        /\ Abs(g.dx) > Abs(g.dy)

C28_SecondTapAt(x) ==
    /\ adv.sinceLastTap # -1 /\ adv.sinceLastTap < DOUBLE_PRESS_DELAY
    /\ Adv_canTouchVideo(adv) /\ adv.showControls
    /\ adv' = Adv_render(adv, Adv_handleTap(adv, x))

C28_Skipped(target) ==
    /\ adv'.engineSeeks = adv.engineSeeks + 1
    /\ \A e \in adv'.engineLast : e.requested = target
    /\ adv'.isPlaying = adv.isPlaying

C28_Toggled ==
    /\ adv'.isPlaying = ~adv.isPlaying
    /\ adv'.engineSeeks = adv.engineSeeks
    /\ adv'.currentTime = adv.currentTime

C28_DoubleTapMapping ==
    [][ \A x \in AdvTapXs :
          C28_SecondTapAt(x) =>
            IF 3 * x < AdvScreen.width
            THEN C28_Skipped(Max(adv.currentTime - SEEK_TIME, 0))
            ELSE IF 3 * x > 2 * AdvScreen.width
                 THEN C28_Skipped(Min(adv.currentTime + SEEK_TIME,
                                      adv.duration))
                 ELSE C28_Toggled ]_vars

(* A double tap has been made in the right third after the load: both     *)
(* taps were pressed, lastTap is back to 0, and the engine was sent a     *)
(* seek 10 s ahead of position 0.                                         *)
C28_SkippedByDoubleTap ==
    /\ adv.taps = 2 /\ adv.sinceLastTap = -1 /\ adv.sinceTouch = -1
    /\ adv.engineSeeks = 1 /\ ~adv.isPlaying
    /\ \E e \in adv.engineLast : e.requested = SEEK_TIME


(* C29 -- Position invariant (ProVideoPlayer): in every reachable state   *)
(* 0 <= position <= duration, whatever load completions, progress events, *)
(* seeks and quality switches have happened, also before the first load   *)
(* completes and after a switch to a source of a different duration.      *)
C29_PositionWithinDuration ==
    0 <= pro.currentTime /\ pro.currentTime <= pro.duration


C31_OneTimerPerClass ==
    /\ Cardinality(pro.controlsTimeout) <= 1
    /\ Cardinality(pro.seekTimeout) <= 1
    /\ Cardinality(pro.progressUpdateTimeout) <= 1
    /\ Cardinality(pro.qualityTimeouts) <= 1
    /\ Cardinality(adv.controlsTimeout) <= 1
    /\ Cardinality(adv.controlsVisibilityTimeout) <= 1
    /\ Cardinality(adv.doubleTapTimeout) <= 1
    /\ Cardinality(enh.watchdogs) <= 1
    /\ Cardinality(enh.hideTimeout) <= 1
    /\ Cardinality(nat.timeout) <= 1


(* C32 -- Teardown cancellation (ProVideoPlayer, source change).  No seek  *)
(* debounce timer that was armed before a change of source fires after    *)
(* it.  Such a timer would fire within the debounce delay of the switch,   *)
(* while the restore timer of that switch, whose number among the requests *)
(* is higher, is still pending, and another source than the initial one   *)
(* is selected; the step below is that firing: it writes the position and  *)
(* the seeking flag and sends the engine a seek.                           *)
C32_StaleSeekFires ==
    \E tm \in pro.seekTimeout :
        /\ tm \notin pro'.seekTimeout
        /\ pro'.commits = pro.commits + 1
        /\ \E q \in pro.qualityTimeouts : q.ord > tm.ord
        /\ pro.selectedQualityIndex # ProInit.selectedQualityIndex

C32_TeardownCancellation == [][ ~C32_StaleSeekFires ]_vars


(* C33 -- Scrub suspension is always lifted (ProVideoPlayer).  Every      *)
(* released scrub leads to a state in which the seeking flag is false,    *)
(* and every pending debounced seek, of a scrub or of a direct seek,      *)
(* leads to its engine seek: the count of engine seeks grows and no       *)
(* debounce timer is left.  The flag being false is what lets onProgress  *)
(* handle progress events again.                                          *)
C33_Committed ==
    \A n \in 0..MaxRequests :
        (pro.seekTimeout # {} /\ pro.commits = n)
            ~> (pro.commits > n /\ pro.seekTimeout = {})

C33_SuspensionLifted ==
    /\ pro.scrubPending ~> ~pro.isSeeking
    /\ C33_Committed

(* A scrub to 45 s was released and its debounced seek has reached the    *)
(* engine: the flag is false again.                                       *)
C33_ScrubCommitted ==
    /\ pro.commits = 1 /\ pro.requests = 1
    /\ ~pro.isSeeking /\ ~pro.scrubPending /\ ~pro.dragging
    /\ \E e \in pro.engineLast : e.src = "seekTo" /\ e.pos = 45


(* C34 -- Buffering flag follows engine signals (ProVideoPlayer).  The    *)
(* flag becomes true only while playing and never while the error is      *)
(* shown, and once true it becomes false only by an engine buffer-end     *)
(* signal or an engine error.                                             *)
C34_BufferEnd == pro' = Pro_render(pro, Pro_onBuffer(pro, FALSE))

C34_EngineError == pro.error = "" /\ pro'.failed

C34_BufferingFollowsEngine ==
    [][ /\ (~pro.isBuffering /\ pro'.isBuffering)
              => (pro.isPlaying /\ pro.error = "")
        /\ (pro.isBuffering /\ ~pro'.isBuffering)
              => (C34_BufferEnd \/ C34_EngineError) ]_vars


(* C35 -- Watch-history logging happens at most once per player session   *)
(* (PlayerScreen): whatever progress callbacks arrive, also while an       *)
(* earlier call of addToHistory is still awaiting storage, the screen     *)
(* calls addToHistory at most once for the video it plays.                *)
C35_LoggedAtMostOnce == app.calls <= 1


(* C36 -- Rapid skips accumulate (ProVideoPlayer).  A press of            *)
(* skip-forward or skip-backward made while the debounce of an earlier    *)
(* request is still pending asks for a target 10 s beyond, respectively   *)
(* before, the latest requested target, so that k presses within the      *)
(* window end in one engine seek to clamp(p + 10k), respectively          *)
(* clamp(p - 10k).                                                        *)
C36_SkipWhilePending(dir) ==
    /\ pro.seekTimeout # {}
    /\ Pro_canTouchOverlay(pro)
    /\ pro' = Pro_render(pro, IF dir = 1 THEN Pro_skipForward(pro)
                                         ELSE Pro_skipBackward(pro))

C36_RapidSkipsAccumulate ==
    [][ \A dir \in {1, -1} :
          C36_SkipWhilePending(dir) =>
            \A tm \in pro'.seekTimeout :
                tm.clampedTime =
                    Pro_clamp(pro.latestTarget + dir * PRO_SKIP,
                              pro.duration) ]_vars

(* C37 -- A pan maps to one adjustment (AdvancedVideoPlayer).  A pan move  *)
(* whose horizontal displacement dominates (|dx| > |dy|) changes neither   *)
(* the brightness nor the volume; a move or release whose vertical         *)
(* displacement dominates (|dy| > |dx|) neither shows the seek indicator   *)
(* nor commits a seek; and no pan move does more than one of: change the   *)
(* brightness, change the volume, show the seek indicator.                 *)
C37_Moved(g) ==
    /\ adv'.panMoves = adv.panMoves + 1
    /\ adv'.pan = {g}

C37_Released(g) ==
    /\ g \in adv.pan
    /\ adv'.pan = {}
    /\ adv'.panMoves = adv.panMoves

C37_Adjustments ==
    {k \in {"brightness", "volume", "seek"} :
        \/ k = "brightness" /\ adv'.brightness # adv.brightness
        \/ k = "volume" /\ adv'.volume # adv.volume
        \/ k = "seek" /\ adv'.showSeekIndicator /\ ~adv.showSeekIndicator}

C37_PanOneAdjustment ==
    [][ \A x \in AdvPanXs, dx \in AdvPanOffsets, dy \in AdvPanRises :
          LET g == [x |-> x, dx |-> dx, dy |-> dy]
          IN  /\ C37_Moved(g) =>
                    /\ Cardinality(C37_Adjustments) <= 1
                    /\ Abs(dx) > Abs(dy) => /\ adv'.brightness = adv.brightness
                                            /\ adv'.volume = adv.volume
                    /\ Abs(dy) > Abs(dx) =>
                          adv'.showSeekIndicator = adv.showSeekIndicator
              /\ C37_Released(g) =>
                    (Abs(dy) > Abs(dx) => adv'.engineSeeks = adv.engineSeeks)
      ]_vars

(* The vertical-dominant half of C37 alone. *)
C37_VerticalNeverSeeks ==
    [][ \A x \in AdvPanXs, dx \in AdvPanOffsets, dy \in AdvPanRises :
          LET g == [x |-> x, dx |-> dx, dy |-> dy]
          IN  Abs(dy) > Abs(dx) =>
                /\ C37_Moved(g) =>
                      adv'.showSeekIndicator = adv.showSeekIndicator
                /\ C37_Released(g) => adv'.engineSeeks = adv.engineSeeks
      ]_vars

(* C38 -- State mirrors the engine's volume (EnhancedVideoPlayer).  After  *)
(* every status update of the loaded engine that reports volume v, v = 0   *)
(* included, the volume of the player's state is v; in particular after    *)
(* setVolume(v) and the engine's report of v the state volume is v.        *)
C38_VolumeMirrorsEngine ==
    [][ enh'.statuses = enh.statuses + 1 => enh'.volume = enh'.reported ]_vars

(* The volumes other than 0 are mirrored. *)
C38_AudibleVolumeMirrored ==
    [][ (enh'.statuses = enh.statuses + 1 /\ enh'.reported # 0)
            => enh'.volume = enh'.reported ]_vars

(* C39 -- Watch-history invariant (AuthProvider).  After any sequence of   *)
(* addToHistory, clearHistory, signIn and signOut, each run to its end,    *)
(* the watch history holds at most HistoryLimit items (100 in the source), *)
(* at most one item per videoId, and the video added last comes first;     *)
(* addToHistory and clearHistory change neither the history nor the store  *)
(* while no user is signed in, and signOut leaves the history empty.       *)
C39_OnePerVideo(history) ==
    \A i, j \in 1..Len(history) :
        history[i].videoId = history[j].videoId => i = j

C39_HistoryShape ==
    /\ Len(app.watchHistory) <= HistoryLimit
    /\ C39_OnePerVideo(app.watchHistory)
    /\ app.watchHistory # <<>> =>
          app.watchHistory[1].videoId = app.lastAdded
    /\ \A i \in 1..(Len(app.watchHistory) - 1) :
          app.watchHistory[i].watchedAt > app.watchHistory[i + 1].watchedAt

C39_SignedOutStep ==
    /\ (~app.user /\ ~app'.user) =>
          /\ app'.watchHistory = app.watchHistory
          /\ app'.stored = app.stored
    /\ ~app'.user => app'.watchHistory = <<>>

====
